---- MODULE Spec2Model ----
(***************************************************************************)
(* Terminal Shadow: the event classifier (src/filter.py), the HANDOFF.md   *)
(* updater (src/updater.py), the heartbeat service (src/heartbeat.py) and  *)
(* the session that composes them (shadow.py, src/wrapper.py).             *)
(*                                                                         *)
(* Text is modelled character by character: a Python str is the sequence   *)
(* of its characters, each a one-character string.  The two non-ASCII      *)
(* title glyphs of the entry titles are the atoms "U+26A0" and "U+2713".   *)
(***************************************************************************)
EXTENDS Integers, Sequences, FiniteSets, TLC

\* ------------------------------------------------------------------------
\* Python str and list primitives used by the source
\* ------------------------------------------------------------------------

Min(S) == CHOOSE x \in S : \A y \in S : x <= y

Max(S) == CHOOSE x \in S : \A y \in S : x >= y

UpperToLower ==
    [A |-> "a", B |-> "b", C |-> "c", D |-> "d", E |-> "e", F |-> "f", G |-> "g",
     H |-> "h", I |-> "i", J |-> "j", K |-> "k", L |-> "l", M |-> "m", N |-> "n",
     O |-> "o", P |-> "p", Q |-> "q", R |-> "r", S |-> "s", T |-> "t", U |-> "u",
     V |-> "v", W |-> "w", X |-> "x", Y |-> "y", Z |-> "z"]

UpperLetters == DOMAIN UpperToLower

LowerLetters == {UpperToLower[c] : c \in UpperLetters}

Letters == UpperLetters \cup LowerLetters

Digits == {"0", "1", "2", "3", "4", "5", "6", "7", "8", "9"}

\* str.isspace characters (str.strip, str.split, regex \s)
Whitespace == {" ", "\t", "\n", "\r", "\f"}

\* regex \w
WordChars == Letters \cup Digits \cup {"_"}

LowerChar(c) == IF c \in UpperLetters THEN UpperToLower[c] ELSE c

\* str.lower()
lower(s) == [i \in 1..Len(s) |-> LowerChar(s[i])]

\* the elements of a finite set of integers in increasing order
Sorted(S) ==
    [k \in 1..Cardinality(S) |-> CHOOSE i \in S : Cardinality({j \in S : j < i}) = k - 1]

\* s[:n]
Prefix(s, n) == SubSeq(s, 1, IF Len(s) < n THEN Len(s) ELSE n)

\* sub occurs in s at index i
OccursAt(s, sub, i) ==
    /\ i >= 1
    /\ i + Len(sub) - 1 <= Len(s)
    /\ \A j \in 1..Len(sub) : s[i + j - 1] = sub[j]

\* sub in s
Contains(s, sub) == \E i \in 1..(Len(s) - Len(sub) + 1) : OccursAt(s, sub, i)

\* s.find(sub) counted from 1; 0 when sub does not occur
Find(s, sub) ==
    LET at == {i \in 1..(Len(s) - Len(sub) + 1) : OccursAt(s, sub, i)}
    IN  IF at = {} THEN 0 ELSE Min(at)

\* s.startswith(pre)
StartsWith(s, pre) == OccursAt(s, pre, 1)

\* s.strip()
strip(s) ==
    LET ink == {i \in 1..Len(s) : s[i] \notin Whitespace}
    IN  IF ink = {} THEN <<>> ELSE SubSeq(s, Min(ink), Max(ink))

\* s.split(): the maximal runs of non-whitespace characters, in order
split(s) ==
    LET starts == {i \in 1..Len(s) :
                      s[i] \notin Whitespace /\ (i = 1 \/ s[i - 1] \in Whitespace)}
        ends == {i \in 1..Len(s) :
                    s[i] \notin Whitespace /\ (i = Len(s) \/ s[i + 1] \in Whitespace)}
    IN  [k \in 1..Cardinality(starts) |-> SubSeq(s, Sorted(starts)[k], Sorted(ends)[k])]

\* s.split('\n'): the text between consecutive newlines, at least one line
SplitLines(s) ==
    LET nl == Sorted({i \in 1..Len(s) : s[i] = "\n"})
        from(k) == IF k = 1 THEN 1 ELSE nl[k - 1] + 1
        to(k) == IF k = Len(nl) + 1 THEN Len(s) ELSE nl[k] - 1
    IN  [k \in 1..(Len(nl) + 1) |-> SubSeq(s, from(k), to(k))]

\* ' '.join(words)
RECURSIVE JoinWords(_)
JoinWords(words) ==
    IF Len(words) = 0 THEN <<>>
    ELSE IF Len(words) = 1 THEN words[1]
    ELSE words[1] \o <<" ">> \o JoinWords(Tail(words))

\* str(n) for an int
RECURSIVE NatStr(_)
NatStr(n) ==
    LET d == <<"0", "1", "2", "3", "4", "5", "6", "7", "8", "9">>[(n % 10) + 1]
    IN  IF n < 10 THEN <<d>> ELSE NatStr(n \div 10) \o <<d>>

IntStr(n) == IF n < 0 THEN <<"-">> \o NatStr(0 - n) ELSE NatStr(n)

\* ------------------------------------------------------------------------
\* Python re: a backtracking matcher over the patterns the source uses.
\* A pattern is a sequence of nodes:
\*   [t |-> "lit", txt]             the literal text txt
\*   [t |-> "cls", s, neg, lo, hi]  a character class repeated lo..hi times
\*                                  (greedy)
\*   [t |-> "wb"]                   \b
\*   [t |-> "bol"]                  ^ (no re.MULTILINE: start of the text)
\*   [t |-> "alt", a]               (p1|p2|...), alternatives tried in order
\*   [t |-> "gs"], [t |-> "ge"]     start and end of capture group 1
\* ------------------------------------------------------------------------

Unbounded == 1000000

\* a class node keeps its characters lower-cased too, for re.IGNORECASE
Cls(S, lo, hi) ==
    [t |-> "cls", s |-> S, ls |-> {LowerChar(x) : x \in S}, neg |-> FALSE,
     lo |-> lo, hi |-> hi]

NotCls(S, lo, hi) == [Cls(S, lo, hi) EXCEPT !.neg = TRUE]

\* one literal character, as a pattern node
Lit(c) == [t |-> "lit", txt |-> <<c>>]

\* a literal text, as a pattern
LitSeq(txt) == <<[t |-> "lit", txt |-> txt]>>

WB == [t |-> "wb"]

BOL == [t |-> "bol"]

Alt(alts) == [t |-> "alt", a |-> alts]

GS == [t |-> "gs"]

GE == [t |-> "ge"]

\* character c is in the class of node n (ic: re.IGNORECASE)
ClassHas(n, c, ic) == (IF ic THEN LowerChar(c) \in n.ls ELSE c \in n.s) # n.neg

\* how many characters from p on are in the class of n, at most n.hi
RunLen(n, s, p, ic) ==
    LET limit == IF Len(s) - p + 1 < n.hi THEN Len(s) - p + 1 ELSE n.hi
    IN  CHOOSE k \in 0..limit :
            /\ k = limit \/ ~ClassHas(n, s[p + k], ic)
            /\ \A j \in 0..(k - 1) : ClassHas(n, s[p + j], ic)

\* the literal txt is in s at index p
LitAt(txt, s, p, ic) ==
    /\ p + Len(txt) - 1 <= Len(s)
    /\ \A j \in 1..Len(txt) :
          IF ic THEN LowerChar(s[p + j - 1]) = LowerChar(txt[j]) ELSE s[p + j - 1] = txt[j]

IsWordAt(s, p) == p >= 1 /\ p <= Len(s) /\ s[p] \in WordChars

NoMatch == [ok |-> FALSE, b |-> 0, e |-> 0, gs |-> 0, ge |-> 0]

\* the match of pattern re at index p of s that Python's backtracking finds
\* first: e is the index after the match, gs..ge-1 is group 1.  A greedy
\* repetition takes the longest run after which the rest of the pattern
\* matches; an alternation takes its first alternative after which it does.
RECURSIVE MatchAt(_, _, _, _, _, _)
MatchAt(re, s, p, ic, gs, ge) ==
    IF Len(re) = 0 THEN [ok |-> TRUE, b |-> 0, e |-> p, gs |-> gs, ge |-> ge]
    ELSE
      LET n == Head(re)
          rest == Tail(re)
      IN  CASE n.t = "lit" ->
                 IF LitAt(n.txt, s, p, ic)
                 THEN MatchAt(rest, s, p + Len(n.txt), ic, gs, ge) ELSE NoMatch
            [] n.t = "cls" ->
                 LET run == RunLen(n, s, p, ic)
                     good == {k \in n.lo..run : MatchAt(rest, s, p + k, ic, gs, ge).ok}
                 IN  IF run < n.lo THEN NoMatch
                     ELSE IF run = n.lo THEN MatchAt(rest, s, p + run, ic, gs, ge)
                     ELSE IF good = {} THEN NoMatch
                     ELSE MatchAt(rest, s, p + Max(good), ic, gs, ge)
            [] n.t = "wb" ->
                 IF IsWordAt(s, p - 1) # IsWordAt(s, p)
                 THEN MatchAt(rest, s, p, ic, gs, ge) ELSE NoMatch
            [] n.t = "bol" ->
                 IF p = 1 THEN MatchAt(rest, s, p, ic, gs, ge) ELSE NoMatch
            [] n.t = "alt" ->
                 LET good == {k \in 1..Len(n.a) :
                                 MatchAt(n.a[k] \o rest, s, p, ic, gs, ge).ok}
                 IN  IF good = {} THEN NoMatch
                     ELSE MatchAt(n.a[Min(good)] \o rest, s, p, ic, gs, ge)
            [] n.t = "gs" -> MatchAt(rest, s, p, ic, p, ge)
            [] n.t = "ge" -> MatchAt(rest, s, p, ic, gs, p)

\* re.search(re, s) from index p on: the leftmost match, NoMatch when none
Search(re, s, p, ic) ==
    LET first == CHOOSE q \in p..(Len(s) + 1) :
                     /\ MatchAt(re, s, q, ic, 0, 0).ok
                     /\ \A r \in p..(q - 1) : ~MatchAt(re, s, r, ic, 0, 0).ok
    IN  IF \E q \in p..(Len(s) + 1) : MatchAt(re, s, q, ic, 0, 0).ok
        THEN [MatchAt(re, s, first, ic, 0, 0) EXCEPT !.b = first]
        ELSE NoMatch

\* re.search(re, s) is not None
Matches(re, s, ic) == Search(re, s, 1, ic).ok

\* re.findall(re, s) of a pattern with one group: the group of each
\* non-overlapping match, left to right
RECURSIVE FindAllFrom(_, _, _)
FindAllFrom(re, s, p) ==
    LET m == Search(re, s, p, FALSE)
    IN  IF ~m.ok THEN <<>>
        ELSE <<SubSeq(s, m.gs, m.ge - 1)>>
             \o FindAllFrom(re, s, IF m.e > m.b THEN m.e ELSE m.e + 1)

findall(re, s) == FindAllFrom(re, s, 1)

\* ------------------------------------------------------------------------
\* src/filter.py: EventType and EventFilter
\* ------------------------------------------------------------------------

ERROR == "error"

SUCCESS == "success"

DECISION == "decision"

NOISE == "noise"

EventType == {ERROR, SUCCESS, DECISION, NOISE}

\* the defaults EventFilter.__post_init__ installs
IGNORE_COMMANDS ==
    {<<"l","s">>, <<"l","l">>, <<"l","a">>, <<"l">>, <<"d","i","r">>,
     <<"c","d">>, <<"p","w","d">>,
     <<"c","l","e","a","r">>, <<"c","l","s">>,
     <<"e","x","i","t">>, <<"q","u","i","t">>,
     <<"c","a","t">>, <<"h","e","a","d">>, <<"t","a","i","l">>, <<"l","e","s","s">>, <<"m","o",
           "r","e">>,
     <<"e","c","h","o">>, <<"p","r","i","n","t","f">>,
     <<"w","h","i","c","h">>, <<"w","h","e","r","e","i","s">>, <<"t","y","p","e">>,
     <<"h","i","s","t","o","r","y">>,
     <<"w","h","o","a","m","i">>, <<"i","d">>,
     <<"d","a","t","e">>, <<"u","p","t","i","m","e">>}

ALWAYS_CAPTURE ==
    {<<"g","i","t"," ","c","o","m","m","i","t">>, <<"g","i","t"," ","p","u","s","h">>, <<"g",
          "i","t"," ","m","e","r","g","e">>,
     <<"g","o"," ","b","u","i","l","d">>, <<"g","o"," ","t","e","s","t">>, <<"g","o"," ","r",
           "u","n">>,
     <<"n","p","m"," ","t","e","s","t">>, <<"n","p","m"," ","r","u","n"," ","b","u","i","l","d">>, <<"n",
           "p","m"," ","i","n","s","t","a","l","l">>,
     <<"p","y","t","e","s","t">>, <<"p","y","t","h","o","n"," ","-","m"," ","p","y","t","e","s",
           "t">>,
     <<"c","a","r","g","o"," ","b","u","i","l","d">>, <<"c","a","r","g","o"," ","t","e","s","t">>,
     <<"m","a","k","e">>, <<"m","a","k","e"," ","t","e","s","t">>, <<"m","a","k","e"," ","b",
           "u","i","l","d">>,
     <<"d","o","c","k","e","r"," ","b","u","i","l","d">>, <<"d","o","c","k","e","r"," ","p","u",
           "s","h">>, <<"d","o","c","k","e","r"," ","c","o","m","p","o","s","e">>,
     <<"k","u","b","e","c","t","l"," ","a","p","p","l","y">>, <<"k","u","b","e","c","t","l"," ",
           "d","e","p","l","o","y">>}

\* a significance pattern: its text (classify inspects it) and its regex
Pat(text, re) == [text |-> text, re |-> re]

\* \bw\b
Word(w) == <<WB>> \o LitSeq(w) \o <<WB>>

\* x? for one character x
Opt(c) == Cls({c}, 0, 1)

\* .* and .+ (no re.DOTALL)
DotStar == NotCls({"\n"}, 0, Unbounded)

DotPlus == NotCls({"\n"}, 1, Unbounded)

\* \s+
Spaces == Cls(Whitespace, 1, Unbounded)

SIGNIFICANT_PATTERNS ==
    << Pat(<<"\\","b","e","r","r","o","r","\\","b">>, Word(<<"e","r","r","o","r">>)),
       Pat(<<"\\","b","E","r","r","o","r","\\","b">>, Word(<<"E","r","r","o","r">>)),
       Pat(<<"\\","b","E","R","R","O","R","\\","b">>, Word(<<"E","R","R","O","R">>)),
       Pat(<<"\\","b","e","x","c","e","p","t","i","o","n","\\","b">>, Word(<<"e","x","c","e",
             "p","t","i","o","n">>)),
       Pat(<<"\\","b","E","x","c","e","p","t","i","o","n","\\","b">>, Word(<<"E","x","c","e",
             "p","t","i","o","n">>)),
       Pat(<<"\\","b","E","X","C","E","P","T","I","O","N","\\","b">>, Word(<<"E","X","C","E",
             "P","T","I","O","N">>)),
       Pat(<<"\\","b","t","r","a","c","e","b","a","c","k","\\","b">>, Word(<<"t","r","a","c",
             "e","b","a","c","k">>)),
       Pat(<<"\\","b","T","r","a","c","e","b","a","c","k","\\","b">>, Word(<<"T","r","a","c",
             "e","b","a","c","k">>)),
       Pat(<<"\\","b","f","a","i","l","(","e","d","|","u","r","e",")","?","\\","b">>,
           <<WB>> \o LitSeq(<<"f","a","i","l">>) \o <<Alt(<<LitSeq(<<"e","d">>), LitSeq(<<"u",
                 "r","e">>), <<>>>>), WB>>),
       Pat(<<"\\","b","F","a","i","l","(","e","d","|","u","r","e",")","?","\\","b">>,
           <<WB>> \o LitSeq(<<"F","a","i","l">>) \o <<Alt(<<LitSeq(<<"e","d">>), LitSeq(<<"u",
                 "r","e">>), <<>>>>), WB>>),
       Pat(<<"\\","b","F","A","I","L","\\","b">>, Word(<<"F","A","I","L">>)),
       Pat(<<"\\","b","f","a","t","a","l","\\","b">>, Word(<<"f","a","t","a","l">>)),
       Pat(<<"\\","b","F","a","t","a","l","\\","b">>, Word(<<"F","a","t","a","l">>)),
       Pat(<<"\\","b","F","A","T","A","L","\\","b">>, Word(<<"F","A","T","A","L">>)),
       Pat(<<"\\","b","p","a","n","i","c","\\","b">>, Word(<<"p","a","n","i","c">>)),
       Pat(<<"\\","b","P","a","n","i","c","\\","b">>, Word(<<"P","a","n","i","c">>)),
       Pat(<<"\\","b","P","A","N","I","C","\\","b">>, Word(<<"P","A","N","I","C">>)),
       Pat(<<"\\","b","c","r","a","s","h","(","e","d",")","?","\\","b">>,
           <<WB>> \o LitSeq(<<"c","r","a","s","h">>) \o <<Alt(<<LitSeq(<<"e","d">>), <<>>>>), WB>>),
       Pat(<<"\\","b","C","r","a","s","h","(","e","d",")","?","\\","b">>,
           <<WB>> \o LitSeq(<<"C","r","a","s","h">>) \o <<Alt(<<LitSeq(<<"e","d">>), <<>>>>), WB>>),
       Pat(<<"\\","b","t","i","m","e","o","u","t","\\","b">>, Word(<<"t","i","m","e","o","u","t">>)),
       Pat(<<"\\","b","T","i","m","e","o","u","t","\\","b">>, Word(<<"T","i","m","e","o","u","t">>)),
       Pat(<<"\\","b","c","r","e","a","t","e","d","?","\\","b",".","*","\\","b","f","i","l","e",
             "\\","b">>,
           <<WB>> \o LitSeq(<<"c","r","e","a","t","e">>) \o <<Opt("d"), WB, DotStar>> \o Word(<<"f",
                 "i","l","e">>)),
       Pat(<<"\\","b","m","o","d","i","f","i","e","d","?","\\","b",".","*","\\","b","f","i","l",
             "e","s","?","\\","b">>,
           <<WB>> \o LitSeq(<<"m","o","d","i","f","i","e">>) \o <<Opt("d"), WB, DotStar, WB>>
           \o LitSeq(<<"f","i","l","e">>) \o <<Opt("s"), WB>>),
       Pat(<<"\\","b","p","a","s","s","e","d","?","\\","b",".","*","\\","b","t","e","s","t","s",
             "?","\\","b">>,
           <<WB>> \o LitSeq(<<"p","a","s","s","e">>) \o <<Opt("d"), WB, DotStar, WB>>
           \o LitSeq(<<"t","e","s","t">>) \o <<Opt("s"), WB>>),
       Pat(<<"\\","b","c","o","m","m","i","t","t","e","d","?","\\","b">>, <<WB>> \o LitSeq(<<"c",
             "o","m","m","i","t","t","e">>) \o <<Opt("d"), WB>>),
       Pat(<<"\\","b","d","e","p","l","o","y","e","d","?","\\","b">>, <<WB>> \o LitSeq(<<"d",
             "e","p","l","o","y","e">>) \o <<Opt("d"), WB>>),
       Pat(<<"\\","b","b","u","i","l","d","\\","s","+","s","u","c","c","e","e","d","e","d","\\",
             "b">>,
           <<WB>> \o LitSeq(<<"b","u","i","l","d">>) \o <<Spaces>> \o LitSeq(<<"s","u","c","c",
                 "e","e","d","e","d">>) \o <<WB>>),
       Pat(<<"\\","b","a","l","l","\\","s","+","t","e","s","t","s","\\","s","+","p","a","s","s",
             "e","d","\\","b">>,
           <<WB>> \o LitSeq(<<"a","l","l">>) \o <<Spaces>> \o LitSeq(<<"t","e","s","t","s">>) \o <<Spaces>>
           \o LitSeq(<<"p","a","s","s","e","d">>) \o <<WB>>) >>

\* the words whose presence in a pattern's text makes its match an error
ErrorWords == {<<"e","r","r","o","r">>, <<"f","a","i","l">>, <<"e","x","c","e","p","t","i","o",
      "n">>, <<"p","a","n","i","c">>, <<"c","r","a","s","h">>}

\* any(p in pattern.lower() for p in [...])
IsErrorPattern(pat) == \E p \in ErrorWords : Contains(lower(pat.text), p)

decision_patterns ==
    << <<BOL>> \o LitSeq(<<"g","i","t">>) \o <<Spaces,
            Alt(<<LitSeq(<<"c","o","m","m","i","t">>), LitSeq(<<"p","u","s","h">>), LitSeq(<<"m",
                  "e","r","g","e">>),
                  LitSeq(<<"r","e","b","a","s","e">>), LitSeq(<<"c","h","e","c","k","o","u","t">>)>>)>>,
       <<BOL>> \o LitSeq(<<"g","h">>) \o <<Spaces>>,
       <<BOL>> \o LitSeq(<<"d","o","c","k","e","r">>) \o <<Spaces,
            Alt(<<LitSeq(<<"b","u","i","l","d">>), LitSeq(<<"p","u","s","h">>), LitSeq(<<"r",
                  "u","n">>)>>)>>,
       <<BOL>> \o LitSeq(<<"k","u","b","e","c","t","l">>) \o <<Spaces>>,
       <<BOL>> \o LitSeq(<<"t","e","r","r","a","f","o","r","m">>) \o <<Spaces,
            Alt(<<LitSeq(<<"a","p","p","l","y">>), LitSeq(<<"d","e","s","t","r","o","y">>)>>)>> >>

\* cmd_parts = event.command.strip().split()
cmd_parts(event) == split(strip(event.command))

\* a variant that looks the first token up without lower-casing it
is_ignored_cased(event) == cmd_parts(event)[1] \in IGNORE_COMMANDS

\* base_cmd in self.IGNORE_COMMANDS
IsIgnored(event) == lower(cmd_parts(event)[1]) \in IGNORE_COMMANDS

\* a variant that compares the command without lower-casing it
always_capture_cased(event) == \E pattern \in ALWAYS_CAPTURE : Contains(event.command, pattern)

\* some ALWAYS_CAPTURE pattern is in cmd_lower
IsAlwaysCapture(event) ==
    LET cmd_lower == lower(event.command)
    IN  \E pattern \in ALWAYS_CAPTURE : Contains(cmd_lower, pattern)

combined_output(event) == event.stdout \o <<"\n">> \o event.stderr

\* the indexes of the significance patterns that match the combined output
OutputHits(event) ==
    LET combined == combined_output(event)
    IN  {i \in 1..Len(SIGNIFICANT_PATTERNS) :
            Matches(SIGNIFICANT_PATTERNS[i].re, combined, TRUE)}

\* a variant that lets any matching error pattern decide, wherever it is in
\* the list
any_error_category(event) ==
    IF \E i \in OutputHits(event) : IsErrorPattern(SIGNIFICANT_PATTERNS[i]) THEN ERROR
    ELSE SUCCESS

\* the first matching significance pattern decides between ERROR and SUCCESS
OutputCategory(event) ==
    IF IsErrorPattern(SIGNIFICANT_PATTERNS[Min(OutputHits(event))]) THEN ERROR ELSE SUCCESS

IsDecisionCommand(event) ==
    \E i \in 1..Len(decision_patterns) : Matches(decision_patterns[i], event.command, FALSE)

\* a variant that consults the ignore set before the exit code
classify_ignore_first(event) ==
    IF Len(cmd_parts(event)) > 0 /\ IsIgnored(event) THEN NOISE
    ELSE IF event.exit_code # 0 THEN ERROR
    ELSE NOISE

\* a variant without the noise rules: every zero-exit outcome is logged, as
\* a success when nothing else decides
classify_no_noise(event) ==
    IF event.exit_code # 0 THEN ERROR
    ELSE IF OutputHits(event) # {} THEN OutputCategory(event)
    ELSE IF IsDecisionCommand(event) THEN DECISION
    ELSE SUCCESS

\* EventFilter.classify
classify(event) ==
    IF event.exit_code # 0 THEN ERROR
    ELSE IF Len(cmd_parts(event)) = 0 THEN NOISE
    ELSE IF IsIgnored(event) THEN NOISE
    ELSE IF IsAlwaysCapture(event) THEN SUCCESS
    ELSE IF OutputHits(event) # {} THEN OutputCategory(event)
    ELSE IF IsDecisionCommand(event) THEN DECISION
    ELSE NOISE

\* EventFilter.is_significant
is_significant(event) == classify(event) # NOISE

\* a variant that prints the exit code without its sign
exit_code_unsigned(event) ==
    <<"E","x","i","t"," ","c","o","d","e"," ">> \o NatStr(IF event.exit_code < 0 THEN 0 - event.exit_code ELSE event.exit_code)

\* f"Exit code {event.exit_code}"
ExitCodeText(event) == <<"E","x","i","t"," ","c","o","d","e"," ">> \o IntStr(event.exit_code)

\* (pattern, group) pairs, in priority order
priority_patterns ==
    << [re |-> LitSeq(<<"p","a","n","i","c",":"," ">>) \o <<GS, DotPlus, GE>>, group |-> 1],
       [re |-> LitSeq(<<"E","r","r","o","r",":"," ">>) \o <<GS, DotPlus, GE>>, group |-> 1],
       [re |-> LitSeq(<<"E","R","R","O","R">>) \o <<Opt(":")>> \o LitSeq(<<" ">>) \o <<GS, DotPlus, GE>>,
        group |-> 1],
       [re |-> LitSeq(<<"F","a","t","a","l",":"," ">>) \o <<GS, DotPlus, GE>>, group |-> 1],
       [re |-> LitSeq(<<"E","x","c","e","p","t","i","o","n",":"," ">>) \o <<GS, DotPlus, GE>>, group |-> 1],
       [re |-> LitSeq(<<"T","r","a","c","e","b","a","c","k">>) \o <<DotStar>>, group |-> 0],
       [re |-> LitSeq(<<"F","A","I","L">>) \o <<Alt(<<LitSeq(<<"E","D">>), <<>>>>), Opt(":")>> \o LitSeq(<<" ">>)
               \o <<GS, DotPlus, GE>>,
        group |-> 1] >>

\* (i, j): priority pattern i matches line j; the loops visit the pairs in
\* lexicographic order and return at the first
PriorityHits(lines) ==
    {ij \in (1..Len(priority_patterns)) \X (1..Len(lines)) :
        Matches(priority_patterns[ij[1]].re, lines[ij[2]], FALSE)}

\* a variant that visits the pairs line by line: the first line any pattern
\* matches, and the first pattern that matches it
first_line_pair(S) ==
    CHOOSE ij \in S : \A kl \in S : ij[2] < kl[2] \/ (ij[2] = kl[2] /\ ij[1] <= kl[1])

FirstPair(S) ==
    CHOOSE ij \in S : \A kl \in S : ij[1] < kl[1] \/ (ij[1] = kl[1] /\ ij[2] <= kl[2])

\* the fall-back loop: the first stripped line longer than 5, cut to 200
FallbackLines(lines) == {j \in 1..Len(lines) : Len(strip(lines[j])) > 5}

\* EventFilter.extract_error_summary
extract_error_summary(event) ==
    LET output == IF Len(event.stderr) > 0 THEN event.stderr ELSE event.stdout
        lines == SplitLines(strip(output))
        hits == PriorityHits(lines)
        ij == FirstPair(hits)
        m == Search(priority_patterns[ij[1]].re, lines[ij[2]], 1, FALSE)
    IN  IF Len(output) = 0 THEN ExitCodeText(event)
        ELSE IF hits # {} THEN
            IF priority_patterns[ij[1]].group > 0
            THEN strip(SubSeq(lines[ij[2]], m.gs, m.ge - 1))
            ELSE strip(lines[ij[2]])
        ELSE IF FallbackLines(lines) # {}
        THEN Prefix(strip(lines[Min(FallbackLines(lines))]), 200)
        ELSE ExitCodeText(event)

PathChars == Letters \cup Digits \cup {"_", "-", ".", "/"}

file_patterns ==
    << <<GS, Cls(PathChars, 1, Unbounded), Lit("."), Cls(Letters, 1, 10), GE,
         Alt(<< <<Lit(":"), Cls(Digits, 1, Unbounded)>>, <<>> >>)>>,
       <<Lit("\""), GS, NotCls({"\""}, 1, Unbounded), Lit("."), Cls(Letters, 1, 10), GE,
         Lit("\"")>>,
       <<Lit("'"), GS, NotCls({"'"}, 1, Unbounded), Lit("."), Cls(Letters, 1, 10), GE,
         Lit("'")>> >>

\* combined = event.command + "\n" + event.stderr + "\n" + event.stdout
combined_text(event) ==
    event.command \o <<"\n">> \o event.stderr \o <<"\n">> \o event.stdout

\* the filter of line 204: "not A and B or C" is "(not A and B) or C"
IsFileLike(match) ==
    (~StartsWith(match, <<"h","t","t","p">>) /\ Contains(match, <<"/">>)) \/ Contains(match, <<".">>)

\* the matches of one pattern that pass both filters, in scan order
KeepFiles(matches) ==
    LET keep == Sorted({i \in 1..Len(matches) :
                           IsFileLike(matches[i]) /\ Len(matches[i]) < 200})
    IN  [k \in 1..Len(keep) |-> matches[keep[k]]]

\* the list "files" before deduplication
scanned_files(event) ==
    KeepFiles(findall(file_patterns[1], combined_text(event)))
    \o KeepFiles(findall(file_patterns[2], combined_text(event)))
    \o KeepFiles(findall(file_patterns[3], combined_text(event)))

\* deduplicate while preserving order
unique(files) ==
    LET first == Sorted({i \in 1..Len(files) : \A j \in 1..(i - 1) : files[j] # files[i]})
    IN  [k \in 1..Len(first) |-> files[first[k]]]

\* a variant that does not cut the list
all_unique_files(event) == unique(scanned_files(event))

\* EventFilter.extract_file_context
extract_file_context(event) == Prefix(unique(scanned_files(event)), 10)

\* ------------------------------------------------------------------------
\* Time.  The clock counts the minutes of one hour of one day; datetime.now()
\* is its current value and strftime renders it.
\* ------------------------------------------------------------------------

TwoDigits(n) == IF n < 10 THEN <<"0">> \o NatStr(n) ELSE NatStr(n)

\* strftime("%Y-%m-%d")
FmtDate(t) == <<"2","0","2","4","-","0","1","-","0","1">>

\* strftime("%Y-%m-%d %H:%M UTC")
FmtMinute(t) == FmtDate(t) \o <<" ","0","0",":">> \o TwoDigits(t) \o <<" ","U","T","C">>

\* strftime("%Y-%m-%d %H:%M:%S")
FmtSecond(t) == FmtDate(t) \o <<" ","0","0",":">> \o TwoDigits(t) \o <<":","0","0">>

\* ------------------------------------------------------------------------
\* src/updater.py: HandoffUpdater.  The document is kept as the list of its
\* lines, content.split('\n'): '\n'.join and split('\n') are inverse to each
\* other, no section marker or pattern of the updater contains a newline, and
\* a text written into the document is split into its lines.
\* ------------------------------------------------------------------------

SECTIONS ==
    [error |-> <<"#","#"," ","L","O","S","T"," ","C","O","N","T","E","X","T"," ","I","N","S",
          "U","R","A","N","C","E"," ","/"," ","D","e","b","u","g","g","i","n","g"," ","H","i",
          "s","t","o","r","y">>,
     success |-> <<"#","#"," ","C","O","M","P","L","E","T","E","D"," ","T","H","I","S"," ","S",
           "E","S","S","I","O","N">>,
     decision |-> <<"#","#"," ","L","O","S","T"," ","C","O","N","T","E","X","T"," ","I","N","S",
           "U","R","A","N","C","E"," ","/"," ","D","e","c","i","s","i","o","n"," ","L","o","g">>,
     heartbeat |-> <<"#","#"," ","S","E","S","S","I","O","N"," ","M","E","T","A","D","A","T","A">>]

SectionTypes == DOMAIN SECTIONS

\* HandoffUpdater._create_template: the text written at time t
TemplateText(t) ==
    <<"#"," ","P","r","o","j","e","c","t"," ","H","a","n","d","o","f","f"," ","D","o","c","u",
          "m","e","n","t","\n","\n","*","*","C","r","e","a","t","e","d",":","*","*"," ">> \o FmtDate(t)
    \o <<"\n","*","*","U","p","d","a","t","e","d",":","*","*"," ">> \o FmtMinute(t)
    \o <<"\n","*","*","S","t","a","t","u","s",":","*","*"," ","A","c","t","i","v","e","\n","\n",
          "-","-","-","\n","\n","#","#"," ","S","E","S","S","I","O","N"," ","M","E","T","A","D",
          "A","T","A","\n","\n">>
    \o <<"*","A","u","t","o","-","p","o","p","u","l","a","t","e","d"," ","b","y"," ","T","e",
          "r","m","i","n","a","l"," ","S","h","a","d","o","w","*","\n","\n","-","-","-","\n",
          "\n">>
    \o <<"#","#"," ","C","O","M","P","L","E","T","E","D"," ","T","H","I","S"," ","S","E","S",
          "S","I","O","N","\n","\n","*","S","i","g","n","i","f","i","c","a","n","t"," ","c","o",
          "m","p","l","e","t","i","o","n","s"," ","l","o","g","g","e","d"," ","h","e","r","e",
          "*","\n","\n","-","-","-","\n","\n">>
    \o <<"#","#"," ","L","O","S","T"," ","C","O","N","T","E","X","T"," ","I","N","S","U","R",
          "A","N","C","E"," ","/"," ","D","e","b","u","g","g","i","n","g"," ","H","i","s","t",
          "o","r","y","\n","\n">>
    \o <<"*","E","r","r","o","r","s"," ","a","n","d"," ","r","e","s","o","l","u","t","i","o",
          "n","s"," ","l","o","g","g","e","d"," ","h","e","r","e","*","\n","\n","-","-","-",
          "\n","\n">>
    \o <<"#","#"," ","L","O","S","T"," ","C","O","N","T","E","X","T"," ","I","N","S","U","R",
          "A","N","C","E"," ","/"," ","D","e","c","i","s","i","o","n"," ","L","o","g","\n","\n">>
    \o <<"*","K","e","y"," ","d","e","c","i","s","i","o","n","s"," ","a","n","d"," ","r","a",
          "t","i","o","n","a","l","e"," ","l","o","g","g","e","d"," ","h","e","r","e","*","\n",
          "\n","-","-","-","\n","\n">>
    \o <<"#","#"," ","P","R","E","V","I","O","U","S","L","Y"," ","C","O","M","P","L","E","T",
          "E","D","\n","\n","*","H","i","s","t","o","r","i","c","a","l"," ","c","o","m","p","l",
          "e","t","i","o","n","s","*","\n","\n","-","-","-","\n","\n">>
    \o <<"*","T","h","i","s"," ","d","o","c","u","m","e","n","t"," ","i","s"," ","m","a","i",
          "n","t","a","i","n","e","d"," ","b","y"," ","T","e","r","m","i","n","a","l"," ","S",
          "h","a","d","o","w"," ","f","o","r"," ","c","o","n","t","e","x","t"," ","c","o","n",
          "t","i","n","u","i","t","y",".","*","\n">>

create_template(t) == SplitLines(TemplateText(t))

\* a variant that keeps the end of the text instead of its beginning
truncate_keep_tail(text, max_length) ==
    LET stripped == strip(text)
    IN  IF Len(text) = 0 THEN <<>>
        ELSE IF Len(stripped) <= max_length THEN stripped
        ELSE SubSeq(stripped, Len(stripped) - max_length + 1, Len(stripped))
             \o <<"\n",".",".","."," ","(","t","r","u","n","c","a","t","e","d",","," ">> \o NatStr(Len(stripped)) \o <<" ",
                   "t","o","t","a","l"," ","c","h","a","r","s",")">>

\* HandoffUpdater._truncate
truncate(text, max_length) ==
    LET stripped == strip(text)
    IN  IF Len(text) = 0 THEN <<>>
        ELSE IF Len(stripped) <= max_length THEN stripped
        ELSE SubSeq(stripped, 1, max_length) \o <<"\n",".",".","."," ","(","t","r","u","n","c",
              "a","t","e","d",","," ">>
             \o NatStr(Len(stripped)) \o <<" ","t","o","t","a","l"," ","c","h","a","r","s",")">>

\* the line the files loop adds for the k-th of files[:5]
FileItem(files, k) ==
    IF k <= Len(files) THEN <<"-"," ","U+0060">> \o files[k] \o <<"U+0060","\n">> ELSE <<>>

\* for f in files[:5]: entry += ...
FileItems(files) ==
    FileItem(files, 1) \o FileItem(files, 2) \o FileItem(files, 3)
    \o FileItem(files, 4) \o FileItem(files, 5)

\* HandoffUpdater._format_error_entry; error_summary and files are <<>> for
\* None (the source tests both for truth only)
format_error_entry(event, error_summary, files) ==
    LET summary == IF Len(error_summary) > 0 THEN error_summary
                   ELSE <<"E","x","i","t"," ","c","o","d","e"," ">> \o IntStr(event.exit_code)
    IN  <<"\n","#","#","#"," ","U+26A0"," ","E","r","r","o","r",":"," ">> \o Prefix(summary, 100)
        \o <<"\n","\n","*","*","T","i","m","e","s","t","a","m","p",":","*","*"," ">> \o FmtSecond(event.timestamp)
        \o <<"\n","\n","*","*","C","o","m","m","a","n","d",":","*","*","\n","U+0060","U+0060",
              "U+0060","b","a","s","h","\n">> \o event.command
        \o <<"\n","U+0060","U+0060","U+0060","\n","\n","*","*","W","o","r","k","i","n","g"," ",
              "D","i","r","e","c","t","o","r","y",":","*","*"," ","U+0060">> \o event.working_dir
        \o <<"U+0060","\n","\n","*","*","E","x","i","t"," ","C","o","d","e",":","*","*"," ">> \o IntStr(event.exit_code)
        \o <<"\n","\n","*","*","S","t","d","e","r","r",":","*","*","\n","U+0060","U+0060",
              "U+0060","\n">> \o truncate(event.stderr, 800) \o <<"\n","U+0060","U+0060",
              "U+0060","\n">>
        \o (IF Len(event.stdout) > 0 /\ Len(strip(event.stdout)) > 0
            THEN <<"\n","*","*","S","t","d","o","u","t"," ","(","r","e","l","e","v","a","n","t",
                  ")",":","*","*","\n","U+0060","U+0060","U+0060","\n">> \o truncate(event.stdout, 400)
                 \o <<"\n","U+0060","U+0060","U+0060","\n">>
            ELSE <<>>)
        \o (IF Len(files) > 0 THEN <<"\n","*","*","F","i","l","e","s"," ","I","n","v","o","l",
              "v","e","d",":","*","*","\n">> \o FileItems(files)
            ELSE <<>>)
        \o <<"\n","*","*","H","y","p","o","t","h","e","s","i","s",":","*","*"," ","[","T","o",
              " ","b","e"," ","f","i","l","l","e","d"," ","a","f","t","e","r"," ","i","n","v",
              "e","s","t","i","g","a","t","i","o","n","]","\n","\n">>
        \o <<"*","*","R","e","s","o","l","u","t","i","o","n",":","*","*"," ","[","T","o"," ",
              "b","e"," ","f","i","l","l","e","d"," ","a","f","t","e","r"," ","f","i","x","]",
              "\n","\n","-","-","-","\n">>

\* the title of a success entry
success_title(event) ==
    IF Len(event.command) > 50
    THEN split(event.command)[1] \o <<" ","(","l","o","n","g"," ","c","o","m","m","a","n","d",
          ")">>
    ELSE Prefix(event.command, 80)

\* HandoffUpdater._format_success_entry
format_success_entry(event, files) ==
    <<"\n","#","#","#"," ","U+2713"," ">> \o success_title(event)
    \o <<"\n","\n","*","*","T","i","m","e","s","t","a","m","p",":","*","*"," ">> \o FmtSecond(event.timestamp)
    \o <<"\n","\n","*","*","D","u","r","a","t","i","o","n",":","*","*"," ">> \o IntStr(event.duration_ms)
    \o <<"m","s","\n","\n","*","*","C","o","m","m","a","n","d",":","*","*","\n","U+0060",
          "U+0060","U+0060","b","a","s","h","\n">> \o Prefix(event.command, 200) \o <<"\n",
          "U+0060","U+0060","U+0060","\n">>
    \o (IF Len(strip(truncate(event.stdout, 500))) > 0
        THEN <<"\n","*","*","O","u","t","p","u","t",":","*","*","\n","U+0060","U+0060","U+0060",
              "\n">> \o truncate(event.stdout, 500) \o <<"\n","U+0060","U+0060","U+0060","\n">>
        ELSE <<>>)
    \o (IF Len(files) > 0 THEN <<"\n","*","*","F","i","l","e","s"," ","A","f","f","e","c","t",
          "e","d",":","*","*","\n">> \o FileItems(files)
        ELSE <<>>)
    \o <<"\n","-","-","-","\n">>

\* HandoffUpdater._format_decision_entry
format_decision_entry(event) ==
    <<"\n","#","#","#"," ","D","e","c","i","s","i","o","n",":"," ">> \o Prefix(event.command, 80)
    \o <<"\n","\n","*","*","T","i","m","e","s","t","a","m","p",":","*","*"," ">> \o FmtSecond(event.timestamp)
    \o <<"\n","\n","*","*","C","o","m","m","a","n","d",":","*","*","\n","U+0060","U+0060",
          "U+0060","b","a","s","h","\n">> \o event.command
    \o <<"\n","U+0060","U+0060","U+0060","\n","\n","*","*","C","o","n","t","e","x","t",":","*",
          "*"," ","[","W","h","y"," ","t","h","i","s"," ","c","o","m","m","a","n","d"," ","w",
          "a","s"," ","r","u","n","]","\n","\n","*","*","O","u","t","c","o","m","e",":","*","*",
          " ">>
    \o IntStr(event.exit_code)
    \o <<" ","(","0"," ","="," ","s","u","c","c","e","s","s",")","\n","\n","*","*","R","a","t",
          "i","o","n","a","l","e",":","*","*"," ","[","T","o"," ","b","e"," ","f","i","l","l",
          "e","d"," ","-"," ","w","h","y"," ","t","h","i","s"," ","a","p","p","r","o","a","c",
          "h"," ","w","a","s"," ","c","h","o","s","e","n","]">>
    \o <<"\n","\n","-","-","-","\n">>

\* None: a value that is no str, a str being a sequence of characters
None == <<"None">>

\* the entry append_heartbeat formats at time t from stats whose last_command
\* is a str
format_heartbeat_entry(session_stats, t) ==
    <<"\n","#","#","#"," ","[","H","E","A","R","T","B","E","A","T","]"," ">> \o FmtMinute(t)
    \o <<"\n","\n","*","*","S","e","s","s","i","o","n"," ","D","u","r","a","t","i","o","n",":",
          "*","*"," ">> \o session_stats.duration
    \o <<"\n","*","*","C","o","m","m","a","n","d","s"," ","E","x","e","c","u","t","e","d",":",
          "*","*"," ">> \o IntStr(session_stats.command_count)
    \o <<"\n","*","*","L","a","s","t"," ","C","o","m","m","a","n","d",":","*","*"," ","U+0060">> \o Prefix(session_stats.last_command, 100)
    \o <<"U+0060","\n","*","*","W","o","r","k","i","n","g"," ","D","i","r","e","c","t","o","r",
          "y",":","*","*"," ","U+0060">> \o session_stats.project_path
    \o <<"U+0060","\n","\n","*","*","S","t","a","t","u","s",":","*","*"," ","S","e","s","s","i",
          "o","n"," ","a","c","t","i","v","e","."," ","C","o","n","t","i","n","u","i","n","g",
          " ","w","o","r","k",".","\n","\n","-","-","-","\n">>

\* session_stats.get('last_command', 'none')[:100] raises TypeError when the
\* key is present with the value None
heartbeat_raises(session_stats) == session_stats.last_command = None

\* the section and the entry text append_event inserts for an event type
event_section(event_type) ==
    CASE event_type = ERROR -> "error"
      [] event_type = SUCCESS -> "success"
      [] event_type = DECISION -> "decision"

event_entry(event, event_type, error_summary, files) ==
    CASE event_type = ERROR -> format_error_entry(event, error_summary, files)
      [] event_type = SUCCESS -> format_success_entry(event, files)
      [] event_type = DECISION -> format_decision_entry(event)

\* the lines that contain the marker text
MarkerLines(content, section_marker) ==
    {i \in 1..Len(content) : Contains(content[i], section_marker)}

\* section_marker in content
has_marker(content, section_type) == MarkerLines(content, SECTIONS[section_type]) # {}

\* a variant that inserts on the line after the marker line
insert_after_marker(content, section_type) ==
    Min(MarkerLines(content, SECTIONS[section_type])) + 1

\* the index _insert_entry inserts at (from 1): the first line after the one
\* that follows the first marker line that starts with '## ', else the end
insert_idx(content, section_type) ==
    LET marker_line == Min(MarkerLines(content, SECTIONS[section_type]))
        headers == {i \in (marker_line + 2)..Len(content) : StartsWith(content[i], <<"#","#"," ">>)}
    IN  IF headers = {} THEN Len(content) + 1 ELSE Min(headers)

\* lines.insert(idx, entry) followed by '\n'.join(lines)
insert_at(content, idx, entry) ==
    SubSeq(content, 1, idx - 1) \o SplitLines(entry) \o SubSeq(content, idx, Len(content))

\* what _insert_entry writes back when the marker is in the content it read
inserted(content, section_type, entry) ==
    insert_at(content, insert_idx(content, section_type), entry)

\* the fall-back of _insert_entry: f.write('\n' + entry) in append mode
appended(content, entry) == content \o SplitLines(entry)

\* a variant without the fall-back: nothing is written when the marker is
\* not in the document
insert_if_marker(content, section_type, entry) ==
    IF has_marker(content, section_type)
    THEN inserted(content, section_type, entry)
    ELSE content

\* HandoffUpdater._insert_entry run without interruption on a document
insert_entry(content, section_type, entry) ==
    IF has_marker(content, section_type)
    THEN inserted(content, section_type, entry)
    ELSE appended(content, entry)

\* r'\*\*Updated:\*\* [^\n]+'
UpdatedRe == LitSeq(<<"*","*","U","p","d","a","t","e","d",":","*","*"," ">>) \o <<DotPlus>>

\* re.sub on one line: the pattern cannot cross a newline, and its match
\* runs to the end of the line
sub_updated(line, t) ==
    LET m == Search(UpdatedRe, line, 1, FALSE)
    IN  IF m.ok
        THEN SubSeq(line, 1, m.b - 1) \o <<"*","*","U","p","d","a","t","e","d",":","*","*"," ">> \o FmtMinute(t)
             \o SubSeq(line, m.e, Len(line))
        ELSE line

\* a variant that adds the field at the top of a document that lacks it
update_or_add_timestamp(content, t) ==
    IF \E i \in 1..Len(content) : Matches(UpdatedRe, content[i], FALSE)
    THEN [i \in 1..Len(content) |-> sub_updated(content[i], t)]
    ELSE <<<<"*","*","U","p","d","a","t","e","d",":","*","*"," ">> \o FmtMinute(t)>> \o content

\* the content HandoffUpdater._update_timestamp writes back at time t
update_timestamp(content, t) == [i \in 1..Len(content) |-> sub_updated(content[i], t)]

\* r'### ⚠ Error: ([^\n]+)'
ErrorTitleRe == LitSeq(<<"#","#","#"," ","U+26A0"," ","E","r","r","o","r",":"," ">>) \o <<GS, DotPlus, GE>>

\* error_section[1].split('##')[0] as lines: the text after the first
\* occurrence of the Debugging History marker, up to the next '##'
error_content(content) ==
    LET marker == SECTIONS["error"]
        first == Min(MarkerLines(content, marker))
        tail == SubSeq(content[first], Find(content[first], marker) + Len(marker),
                       Len(content[first]))
        later == {i \in (first + 1)..Len(content) : Contains(content[i], <<"#","#">>)}
        last == IF later = {} THEN Len(content) ELSE Min(later)
    IN  IF Contains(tail, <<"#","#">>) THEN <<SubSeq(tail, 1, Find(tail, <<"#","#">>) - 1)>>
        ELSE [i \in 1..(last - first + 1) |->
                 IF i = 1 THEN tail
                 ELSE IF later # {} /\ first + i - 1 = last
                      THEN SubSeq(content[last], 1, Find(content[last], <<"#","#">>) - 1)
                      ELSE content[first + i - 1]]

\* HandoffUpdater.get_recent_errors on an existing document
get_recent_errors(content, count) ==
    IF MarkerLines(content, SECTIONS["error"]) = {} THEN <<>>
    ELSE LET region == error_content(content)
             hits == Sorted({i \in 1..Len(region) : Matches(ErrorTitleRe, region[i], FALSE)})
             title(i) == LET m == Search(ErrorTitleRe, region[i], 1, FALSE)
                         IN  SubSeq(region[i], m.gs, m.ge - 1)
         IN  Prefix([k \in 1..Len(hits) |-> title(hits[k])], count)

\* HandoffUpdater.append_event run without interruption at time t on a
\* document: _insert_entry, then _update_timestamp; nothing for NOISE
append_event(content, event, event_type, error_summary, files, t) ==
    IF event_type = NOISE THEN content
    ELSE update_timestamp(
             insert_entry(content, event_section(event_type),
                          event_entry(event, event_type, error_summary, files)), t)

\* a variant that updates the timestamp after a heartbeat as well
append_heartbeat_stamped(content, session_stats, t) ==
    update_timestamp(
        insert_entry(content, "heartbeat", format_heartbeat_entry(session_stats, t)), t)

\* HandoffUpdater.append_heartbeat run without interruption at time t, for
\* stats it can format
append_heartbeat(content, session_stats, t) ==
    insert_entry(content, "heartbeat", format_heartbeat_entry(session_stats, t))

\* ------------------------------------------------------------------------
\* The session: shadow.py ShadowSession with its TerminalShadow, EventFilter,
\* HandoffUpdater and HeartbeatService.
\* ------------------------------------------------------------------------

VARIABLES
    file,             \* the lines of HANDOFF.md
    now,              \* datetime.now(), in minutes
    command_count,    \* TerminalShadow._command_count
    last_command,     \* TerminalShadow._last_command.command, or None
    heartbeat,        \* ShadowSession._heartbeat: "none", "running", "stopped"
    heartbeat_count,  \* HeartbeatService._heartbeat_count
    recent,           \* the call of get_recent_errors that was the last operation
    log,              \* section and lines of every entry accepted so far
    caller,           \* the thread that calls execute
    beat,             \* the heartbeat thread
    event,            \* the outcome handed to the filter
    result,           \* what the filter returned for it
    service,          \* the fields of a HeartbeatService
    loops,            \* the threads that run its _run_loop, in the order started
    main,             \* the thread that calls its start() and stop()
    observed          \* ShadowSession.on_event: whether supplied, and its calls

sessionVars == <<file, now, command_count, last_command, heartbeat, heartbeat_count, recent, log>>
threadVars == <<caller, beat>>
filterVars == <<event, result>>
serviceVars == <<service, loops, main>>
observerVars == <<observed>>
vars == <<file, now, command_count, last_command, heartbeat, heartbeat_count, recent, log,
          caller, beat, event, result, service, loops, main, observed>>

\* bounds of the exploration
MaxCommands == 2
MaxBeats == 2
MaxNow == 1
MaxCount == 2

\* str(self.project_path)
ProjectPath == <<"/","w">>

\* what subprocess.run can come back with
SessionOutcomes ==
    {[command |-> <<"m","a","k","e">>, stdout |-> <<>>, stderr |-> <<"a",".","c",":","3",":",
          " ","e","r","r","o","r",":"," ","b","a","d">>, exit_code |-> 2],
     [command |-> <<"f","a","l","s","e">>, stdout |-> <<>>, stderr |-> <<>>, exit_code |-> 1],
     [command |-> <<"g","i","t"," ","c","o","m","m","i","t"," ","-","m"," ","'","#","#"," ","L",
           "O","S","T"," ","C","O","N","T","E","X","T"," ","I","N","S","U","R","A","N","C","E",
           " ","/"," ","D","e","b","u","g","g","i","n","g"," ","H","i","s","t","o","r","y","'">>,
      stdout |-> <<"1"," ","f","i","l","e"," ","c","h","a","n","g","e","d">>, stderr |-> <<>>, exit_code |-> 0],
     [command |-> <<"g","i","t"," ","r","e","b","a","s","e"," ","m","a","i","n">>, stdout |-> <<>>, stderr |-> <<>>, exit_code |-> 0],
     [command |-> <<"l","s">>, stdout |-> <<"a",".","c">>, stderr |-> <<>>, exit_code |-> 0],
     [command |-> <<"g","r","e","p"," ","-","h"," ","'","^","#","#"," ","S","'"," ","H","A","N",
           "D","O","F","F",".","m","d"," ","n","o","f","i","l","e">>, stdout |-> <<"#","#"," ",
           "S","E","S","S","I","O","N"," ","M","E","T","A","D","A","T","A">>,
      stderr |-> <<"g","r","e","p",":"," ","n","o","f","i","l","e",":"," ","N","o"," ","s","u",
            "c","h"," ","f","i","l","e"," ","o","r"," ","d","i","r","e","c","t","o","r","y">>, exit_code |-> 2]}

\* the CommandResult TerminalShadow.execute builds at time t
CommandResult(outcome, t) ==
    [command |-> outcome.command, stdout |-> outcome.stdout, stderr |-> outcome.stderr,
     exit_code |-> outcome.exit_code, duration_ms |-> 5, working_dir |-> ProjectPath,
     timestamp |-> t]

\* TerminalShadow.session_duration at time t of a session constructed at 0
session_duration(t) == <<"0","h"," ">> \o NatStr(t) \o <<"m"," ","0","s">>

\* TerminalShadow.get_session_stats
get_session_stats(t, count, command) ==
    [duration |-> session_duration(t), command_count |-> count, last_command |-> command,
     project_path |-> ProjectPath]

\* error_summary and files as ShadowSession.execute extracts them
summary_of(cmd_result, event_type) ==
    IF event_type = ERROR THEN extract_error_summary(cmd_result) ELSE <<>>

files_of(cmd_result, event_type) ==
    IF event_type \in {ERROR, SUCCESS} THEN extract_file_context(cmd_result) ELSE <<>>

\* the entry text append_event formats for a result that is not NOISE
entry_of(cmd_result) ==
    event_entry(cmd_result, classify(cmd_result),
                summary_of(cmd_result, classify(cmd_result)),
                files_of(cmd_result, classify(cmd_result)))

\* the record of an accepted entry: its section and its lines
Logged(section_type, entry) == [section |-> section_type, entry |-> SplitLines(entry)]

\* no call of get_recent_errors, no call of the filter
NoCall == [count |-> 0, titles |-> <<>>]

NoResult == [op |-> "none", value |-> <<>>]

Idle == [pc |-> "idle", section |-> "none", entry |-> <<>>, content |-> <<>>]

\* HeartbeatService.__init__: not running, no thread, no tick emitted
NewService == [running |-> FALSE, thread |-> 0, session_start |-> 0, heartbeat_count |-> 0]

\* the calling thread before its first call
MainIdle ==
    [pc |-> "idle", waited |-> 0, calls |-> 0, op |-> "none", found |-> FALSE, loaded |-> 0,
     ticks |-> 0]

\* on_event = None: no observer, no call
NoObserver == [on |-> FALSE, calls |-> <<>>]

ServiceInit ==
    /\ service = NewService
    /\ loops = <<>>
    /\ main = MainIdle

SessionInit ==
    /\ ServiceInit
    /\ observed = NoObserver
    /\ file = create_template(0)
    /\ now = 0
    /\ command_count = 0
    /\ last_command = None
    /\ heartbeat = "none"
    /\ heartbeat_count = 0
    /\ recent = NoCall
    /\ log = <<>>
    /\ caller = Idle
    /\ beat = Idle

Init ==
    /\ SessionInit
    /\ event = None
    /\ result = NoResult

\* a minute passes
Pass ==
    /\ now < MaxNow
    /\ now' = now + 1
    /\ recent' = NoCall
    /\ UNCHANGED <<file, command_count, last_command, heartbeat, heartbeat_count, log>>
    /\ UNCHANGED threadVars
    /\ UNCHANGED filterVars
    /\ UNCHANGED serviceVars
    /\ UNCHANGED observerVars

\* ShadowSession.start: HeartbeatService.start
Start ==
    /\ heartbeat = "none"
    /\ heartbeat' = "running"
    /\ heartbeat_count' = 0
    /\ recent' = NoCall
    /\ UNCHANGED <<file, now, command_count, last_command, log>>
    /\ UNCHANGED threadVars
    /\ UNCHANGED filterVars
    /\ UNCHANGED serviceVars
    /\ UNCHANGED observerVars

\* ShadowSession.stop: HeartbeatService.stop
Stop ==
    /\ heartbeat = "running"
    /\ heartbeat' = "stopped"
    /\ recent' = NoCall
    /\ UNCHANGED <<file, now, command_count, last_command, heartbeat_count, log>>
    /\ UNCHANGED threadVars
    /\ UNCHANGED filterVars
    /\ UNCHANGED serviceVars
    /\ UNCHANGED observerVars

\* ShadowSession.execute, the heartbeat thread not running in between
Execute(outcome, force_log) ==
    /\ command_count < MaxCommands
    /\ caller.pc = "idle"
    /\ beat.pc = "idle"
    /\ LET cmd_result == CommandResult(outcome, now)
           event_type == classify(cmd_result)
       IN  /\ command_count' = command_count + 1
           /\ last_command' = cmd_result.command
           /\ IF event_type = NOISE
              THEN /\ file' = IF force_log
                               THEN append_event(file, cmd_result, event_type, <<>>, <<>>, now)
                               ELSE file
                   /\ log' = log
              ELSE /\ file' = update_timestamp(
                                  insert_entry(file, event_section(event_type),
                                               entry_of(cmd_result)), now)
                   /\ log' = Append(log, Logged(event_section(event_type),
                                                entry_of(cmd_result)))
    /\ recent' = NoCall
    /\ UNCHANGED <<now, heartbeat, heartbeat_count>>
    /\ UNCHANGED threadVars
    /\ UNCHANGED filterVars
    /\ UNCHANGED serviceVars
    /\ UNCHANGED observerVars

\* HeartbeatService._emit_heartbeat when the timer of _run_loop fires, the
\* caller not running in between: an exception of on_heartbeat is swallowed
HeartbeatTick ==
    /\ heartbeat = "running"
    /\ heartbeat_count < MaxBeats
    /\ caller.pc = "idle"
    /\ beat.pc = "idle"
    /\ heartbeat_count' = heartbeat_count + 1
    /\ LET stats == get_session_stats(now, command_count, last_command)
       IN  IF heartbeat_raises(stats)
           THEN /\ file' = file
                /\ log' = log
           ELSE /\ file' = append_heartbeat(file, stats, now)
                /\ log' = Append(log, Logged("heartbeat", format_heartbeat_entry(stats, now)))
    /\ recent' = NoCall
    /\ UNCHANGED <<now, command_count, last_command, heartbeat>>
    /\ UNCHANGED threadVars
    /\ UNCHANGED filterVars
    /\ UNCHANGED serviceVars
    /\ UNCHANGED observerVars

\* HandoffUpdater.get_recent_errors(count)
GetRecentErrors(count) ==
    /\ caller.pc = "idle"
    /\ beat.pc = "idle"
    /\ recent' = [count |-> count, titles |-> get_recent_errors(file, count)]
    /\ UNCHANGED <<file, now, command_count, last_command, heartbeat, heartbeat_count, log>>
    /\ UNCHANGED threadVars
    /\ UNCHANGED filterVars
    /\ UNCHANGED serviceVars
    /\ UNCHANGED observerVars

\* force_log changes nothing for an outcome that is not NOISE
Calls ==
    {c \in SessionOutcomes \X BOOLEAN : c[2] => classify(CommandResult(c[1], 0)) = NOISE}

Next ==
    \/ Pass
    \/ Start
    \/ Stop
    \/ \E c \in Calls : Execute(c[1], c[2])
    \/ HeartbeatTick
    \/ \E count \in 1..MaxCount : GetRecentErrors(count)

Spec == Init /\ [][Next]_vars

\* ------------------------------------------------------------------------
\* The same session with the caller and the heartbeat thread interleaved at
\* the file operations of _insert_entry and _update_timestamp: read, the
\* truncation of open(path, 'w'), the write at close, the append of mode 'a'.
\* ------------------------------------------------------------------------

\* the number of characters of lines lo..hi, newlines not counted
RECURSIVE SumLen(_, _, _)
SumLen(lines, lo, hi) ==
    IF lo > hi THEN 0
    ELSE IF lo = hi THEN Len(lines[lo])
    ELSE SumLen(lines, lo, (lo + hi) \div 2) + SumLen(lines, (lo + hi) \div 2 + 1, hi)

\* len('\n'.join(lines))
TextLen(lines) == SumLen(lines, 1, Len(lines)) + Len(lines) - 1

\* the offset of the first character of line k in '\n'.join(lines)
Offset(lines, k) == SumLen(lines, 1, k - 1) + k - 1

\* the file after text buf is written at offset 0 of a file that holds cur:
\* what a writer leaves whose truncation was followed by another's write
Overlay(buf, cur) ==
    LET n == TextLen(buf)
        k == Max({j \in 1..Len(cur) : Offset(cur, j) <= n})
        piece == SubSeq(cur[k], n - Offset(cur, k) + 1, Len(cur[k]))
    IN  IF TextLen(cur) <= n THEN buf
        ELSE SubSeq(buf, 1, Len(buf) - 1) \o <<buf[Len(buf)] \o piece>>
             \o SubSeq(cur, k + 1, Len(cur))

\* the file open(path, 'w') leaves before anything is written
Truncated == << <<>> >>

\* what subprocess.run can come back with in the interleaved session
ThreadOutcomes ==
    {o \in SessionOutcomes : o.command \in {<<"m","a","k","e">>, <<"l","s">>}}

\* TerminalShadow.execute up to "self._command_count += 1"
CallCount(outcome) ==
    /\ caller.pc = "idle"
    /\ command_count < MaxCommands
    /\ command_count' = command_count + 1
    /\ caller' = [caller EXCEPT !.pc = "counted", !.content = CommandResult(outcome, now)]
    /\ UNCHANGED <<file, now, last_command, heartbeat, heartbeat_count, recent, log, beat>>
    /\ UNCHANGED filterVars
    /\ UNCHANGED serviceVars
    /\ UNCHANGED observerVars

\* "self._last_command = cmd_result", classify, and append_event up to the
\* call of _insert_entry
CallLast ==
    /\ caller.pc = "counted"
    /\ last_command' = caller.content.command
    /\ caller' = IF classify(caller.content) = NOISE THEN Idle
                 ELSE [pc |-> "read", section |-> event_section(classify(caller.content)),
                       entry |-> entry_of(caller.content), content |-> <<>>]
    /\ UNCHANGED <<file, now, command_count, heartbeat, heartbeat_count, recent, log, beat>>
    /\ UNCHANGED filterVars
    /\ UNCHANGED serviceVars
    /\ UNCHANGED observerVars

\* _emit_heartbeat up to the call of _insert_entry in append_heartbeat
BeatWake ==
    /\ beat.pc = "idle"
    /\ heartbeat = "running"
    /\ heartbeat_count < MaxBeats
    /\ heartbeat_count' = heartbeat_count + 1
    /\ LET stats == get_session_stats(now, command_count, last_command)
       IN  beat' = IF heartbeat_raises(stats) THEN Idle
                   ELSE [pc |-> "read", section |-> "heartbeat",
                         entry |-> format_heartbeat_entry(stats, now), content |-> <<>>]
    /\ UNCHANGED <<file, now, command_count, last_command, heartbeat, recent, log, caller>>
    /\ UNCHANGED filterVars
    /\ UNCHANGED serviceVars
    /\ UNCHANGED observerVars

\* _insert_entry: content = f.read(), and the choice of the branch
InsRead(th) ==
    [th EXCEPT !.content = IF has_marker(file, th.section)
                           THEN inserted(file, th.section, th.entry) ELSE <<>>,
               !.pc = IF has_marker(file, th.section) THEN "trunc" ELSE "append"]

\* a thread between open(path, 'w') and the write at close
Opened(th, pc) == [th EXCEPT !.pc = pc]

\* after _insert_entry: the caller goes on to _update_timestamp
Inserted(th, pc) == [pc |-> pc, section |-> "none", entry |-> <<>>, content |-> <<>>]

CallerInsRead ==
    /\ caller.pc = "read"
    /\ caller' = InsRead(caller)
    /\ UNCHANGED <<file, log, beat, now, command_count, last_command, heartbeat, heartbeat_count,
                   recent>>
    /\ UNCHANGED filterVars
    /\ UNCHANGED serviceVars
    /\ UNCHANGED observerVars

CallerInsTrunc ==
    /\ caller.pc = "trunc"
    /\ file' = Truncated
    /\ caller' = Opened(caller, "write")
    /\ UNCHANGED <<log, beat, now, command_count, last_command, heartbeat, heartbeat_count,
                   recent>>
    /\ UNCHANGED filterVars
    /\ UNCHANGED serviceVars
    /\ UNCHANGED observerVars

CallerInsWrite ==
    /\ caller.pc = "write"
    /\ file' = Overlay(caller.content, file)
    /\ log' = Append(log, Logged(caller.section, caller.entry))
    /\ caller' = Inserted(caller, "ts_read")
    /\ UNCHANGED <<beat, now, command_count, last_command, heartbeat, heartbeat_count,
                   recent>>
    /\ UNCHANGED filterVars
    /\ UNCHANGED serviceVars
    /\ UNCHANGED observerVars

CallerInsAppend ==
    /\ caller.pc = "append"
    /\ file' = appended(file, caller.entry)
    /\ log' = Append(log, Logged(caller.section, caller.entry))
    /\ caller' = Inserted(caller, "ts_read")
    /\ UNCHANGED <<beat, now, command_count, last_command, heartbeat, heartbeat_count,
                   recent>>
    /\ UNCHANGED filterVars
    /\ UNCHANGED serviceVars
    /\ UNCHANGED observerVars

\* _update_timestamp: content = f.read() and the re.sub
CallerTsRead ==
    /\ caller.pc = "ts_read"
    /\ caller' = [caller EXCEPT !.pc = "ts_trunc", !.content = update_timestamp(file, now)]
    /\ UNCHANGED <<file, log, beat, now, command_count, last_command, heartbeat, heartbeat_count,
                   recent>>
    /\ UNCHANGED filterVars
    /\ UNCHANGED serviceVars
    /\ UNCHANGED observerVars

CallerTsTrunc ==
    /\ caller.pc = "ts_trunc"
    /\ file' = Truncated
    /\ caller' = Opened(caller, "ts_write")
    /\ UNCHANGED <<log, beat, now, command_count, last_command, heartbeat, heartbeat_count,
                   recent>>
    /\ UNCHANGED filterVars
    /\ UNCHANGED serviceVars
    /\ UNCHANGED observerVars

CallerTsWrite ==
    /\ caller.pc = "ts_write"
    /\ file' = Overlay(caller.content, file)
    /\ caller' = Idle
    /\ UNCHANGED <<log, beat, now, command_count, last_command, heartbeat, heartbeat_count,
                   recent>>
    /\ UNCHANGED filterVars
    /\ UNCHANGED serviceVars
    /\ UNCHANGED observerVars

BeatInsRead ==
    /\ beat.pc = "read"
    /\ beat' = InsRead(beat)
    /\ UNCHANGED <<file, log, caller, now, command_count, last_command, heartbeat, heartbeat_count,
                   recent>>
    /\ UNCHANGED filterVars
    /\ UNCHANGED serviceVars
    /\ UNCHANGED observerVars

BeatInsTrunc ==
    /\ beat.pc = "trunc"
    /\ file' = Truncated
    /\ beat' = Opened(beat, "write")
    /\ UNCHANGED <<log, caller, now, command_count, last_command, heartbeat, heartbeat_count,
                   recent>>
    /\ UNCHANGED filterVars
    /\ UNCHANGED serviceVars
    /\ UNCHANGED observerVars

BeatInsWrite ==
    /\ beat.pc = "write"
    /\ file' = Overlay(beat.content, file)
    /\ log' = Append(log, Logged(beat.section, beat.entry))
    /\ beat' = Idle
    /\ UNCHANGED <<caller, now, command_count, last_command, heartbeat, heartbeat_count,
                   recent>>
    /\ UNCHANGED filterVars
    /\ UNCHANGED serviceVars
    /\ UNCHANGED observerVars

BeatInsAppend ==
    /\ beat.pc = "append"
    /\ file' = appended(file, beat.entry)
    /\ log' = Append(log, Logged(beat.section, beat.entry))
    /\ beat' = Idle
    /\ UNCHANGED <<caller, now, command_count, last_command, heartbeat, heartbeat_count,
                   recent>>
    /\ UNCHANGED filterVars
    /\ UNCHANGED serviceVars
    /\ UNCHANGED observerVars

NextConc ==
    \/ Pass
    \/ Start
    \/ Stop
    \/ \E outcome \in ThreadOutcomes : CallCount(outcome)
    \/ CallLast
    \/ BeatWake
    \/ CallerInsRead
    \/ CallerInsTrunc
    \/ CallerInsWrite
    \/ CallerInsAppend
    \/ CallerTsRead
    \/ CallerTsTrunc
    \/ CallerTsWrite
    \/ BeatInsRead
    \/ BeatInsTrunc
    \/ BeatInsWrite
    \/ BeatInsAppend

SpecConc == Init /\ [][NextConc]_vars

\* ------------------------------------------------------------------------
\* The filter on its own: EventFilter.classify and
\* EventFilter.extract_file_context applied to outcomes drawn from bounded
\* sets of commands and outputs.
\* ------------------------------------------------------------------------

\* bounds of the outcomes
MaxCmdWords == 2
MaxFileWords == 2

\* the sequences of at most n elements of W
SeqsUpTo(W, n) == UNION {[1..k -> W] : k \in 0..n}

\* the words a command is put together from; joining the empty word gives
\* leading, trailing and doubled blanks
CmdWords == {<<>>, <<"l","s">>, <<"L","S">>, <<"g","i","t">>, <<"G","i","t">>, <<"c","o","m",
      "m","i","t">>, <<"r","e","b","a","s","e">>, <<"f","o","o">>}

ClassifyCommands == {JoinWords(ws) : ws \in SeqsUpTo(CmdWords, MaxCmdWords)}

\* stdout and stderr of an outcome
ClassifyOutputs ==
    {<< <<>>, <<>> >>, <<<<"e","r","r","o","r",":"," ","x">>, <<>> >>, << <<>>, <<"2"," ","t",
          "e","s","t","s"," ","f","a","i","l","e","d">>>>,
     <<<<"3"," ","p","a","s","s","e","d">>, <<>> >>}

ExitCodes == {0, 1}

ClassifyEvents ==
    {[command |-> c, stdout |-> o[1], stderr |-> o[2], exit_code |-> x, duration_ms |-> 5,
      working_dir |-> ProjectPath, timestamp |-> 0] :
        c \in ClassifyCommands, o \in ClassifyOutputs, x \in ExitCodes}

\* n times the letter a, and an extension
LongName(n) == [i \in 1..n |-> "a"] \o <<".","c">>

FileWords ==
    {<<"a",".","p","y">>, <<"s","r","c","/","m",".","g","o",":","3">>, <<"h","t","t","p",".",
          "p","y">>, <<"\"","h","t","t","p",":","/","/","x",".","i","o","/","a",".","j","s","\"">>, <<"h",
          "t","t","p","s",":","/","/","y",".","c","o","m","/","b",".","h","t","m","l">>,
     <<"R","E","A","D","M","E">>}

FileCommands == {JoinWords(ws) : ws \in SeqsUpTo(FileWords, MaxFileWords)}

FileOutputs ==
    {<<>>, <<"f","1",".","c"," ","f","2",".","c"," ","f","3",".","c"," ","f","4",".","c"," ",
          "f","5",".","c"," ","f","6",".","c"," ","f","1",".","c"," ","f","7",".","c"," ","f",
          "8",".","c"," ","f","9",".","c"," ","f","1","0",".","c"," ","f","1","1",".","c"," ",
          "f","1","2",".","c">>,
     LongName(197) \o <<" ">> \o LongName(198) \o <<" ","a",".","p","y">>}

FileEvents ==
    {[command |-> c, stdout |-> o, stderr |-> <<>>, exit_code |-> 0, duration_ms |-> 5,
      working_dir |-> ProjectPath, timestamp |-> 0] :
        c \in FileCommands, o \in FileOutputs}

InitClassify ==
    /\ SessionInit
    /\ event \in ClassifyEvents
    /\ result = NoResult

InitFiles ==
    /\ SessionInit
    /\ event \in FileEvents
    /\ result = NoResult

\* EventFilter.classify(event)
Classify ==
    /\ result.op = "none"
    /\ result' = [op |-> "classify", value |-> classify(event)]
    /\ UNCHANGED event
    /\ UNCHANGED sessionVars
    /\ UNCHANGED threadVars
    /\ UNCHANGED serviceVars
    /\ UNCHANGED observerVars

\* EventFilter.extract_file_context(event)
ExtractFileContext ==
    /\ result.op = "none"
    /\ result' = [op |-> "files", value |-> extract_file_context(event)]
    /\ UNCHANGED event
    /\ UNCHANGED sessionVars
    /\ UNCHANGED threadVars
    /\ UNCHANGED serviceVars
    /\ UNCHANGED observerVars

SpecClassify == InitClassify /\ [][Classify]_vars

SpecFiles == InitFiles /\ [][ExtractFileContext]_vars

\* ------------------------------------------------------------------------
\* floyd_shadow_hook.py: log_command on a HANDOFF.md that exists already.
\* Each call builds its own HandoffUpdater on the file it finds; the file is
\* the template or a document that lacks the Updated field or some of the
\* section markers.
\* ------------------------------------------------------------------------

\* bound of the exploration: the entries one document takes
MaxLogged == 1

\* the lines of the template a document found on disk may lack
DroppableLines ==
    {<<"*","*","U","p","d","a","t","e","d",":","*","*"," ">> \o FmtMinute(0)} \cup {SECTIONS[s] : s \in SectionTypes}

\* the document without the lines of drop
Without(content, drop) == SelectSeq(content, LAMBDA line : line \notin drop)

ExistingDocuments == {Without(create_template(0), drop) : drop \in SUBSET DroppableLines}

\* the CommandResult log_command builds at time t: args.duration_ms or 0,
\* args.working_dir or project_path
HookResult(outcome, t) ==
    [command |-> outcome.command, stdout |-> outcome.stdout, stderr |-> outcome.stderr,
     exit_code |-> outcome.exit_code, duration_ms |-> 0, working_dir |-> ProjectPath,
     timestamp |-> t]

InitDoc ==
    /\ ServiceInit
    /\ observed = NoObserver
    /\ file \in ExistingDocuments
    /\ now = 0
    /\ command_count = 0
    /\ last_command = None
    /\ heartbeat = "none"
    /\ heartbeat_count = 0
    /\ recent = NoCall
    /\ log = <<>>
    /\ caller = Idle
    /\ beat = Idle
    /\ event = None
    /\ result = NoResult

\* log_command(args): classify, and append_event unless the outcome is NOISE
\* and not forced
LogCommand(outcome, force) ==
    /\ Len(log) < MaxLogged
    /\ LET cmd_result == HookResult(outcome, now)
           event_type == classify(cmd_result)
       IN  /\ file' = IF event_type # NOISE \/ force
                      THEN append_event(file, cmd_result, event_type,
                                        summary_of(cmd_result, event_type),
                                        files_of(cmd_result, event_type), now)
                      ELSE file
           /\ log' = IF event_type # NOISE
                     THEN Append(log, Logged(event_section(event_type),
                                             event_entry(cmd_result, event_type,
                                                         summary_of(cmd_result, event_type),
                                                         files_of(cmd_result, event_type))))
                     ELSE log
    /\ recent' = NoCall
    /\ UNCHANGED <<now, command_count, last_command, heartbeat, heartbeat_count>>
    /\ UNCHANGED threadVars
    /\ UNCHANGED filterVars
    /\ UNCHANGED serviceVars
    /\ UNCHANGED observerVars

NextDoc ==
    \/ Pass
    \/ \E c \in Calls : LogCommand(c[1], c[2])

SpecDoc == InitDoc /\ [][NextDoc]_vars

\* ------------------------------------------------------------------------
\* src/heartbeat.py: a HeartbeatService on its own, with a stats provider
\* and a sink that may fail.  The calling thread runs start() and stop();
\* every start() of a stopped service starts a thread that runs _run_loop.
\* time.sleep ends when it ends; thread.join(timeout=2) is timed in seconds.
\* ------------------------------------------------------------------------

\* bounds of the exploration
MaxCalls == 3
MaxLoops == 2
MaxTicks == 2
MaxWait == 3

\* self._thread.join(timeout=2)
JoinTimeout == 2

\* datetime.isoformat()
FmtIso(t) == FmtDate(t) \o <<"T","0","0",":">> \o TwoDigits(t) \o <<":","0","0">>

\* HeartbeatService._get_duration for a session started at time start
get_duration(start, t) ==
    LET hours == (t - start) \div 60
        minutes == (t - start) % 60
    IN  IF hours > 0 THEN NatStr(hours) \o <<"h"," ">> \o NatStr(minutes) \o <<"m">>
        ELSE IF minutes > 0 THEN NatStr(minutes) \o <<"m"," ","0","s">>
        ELSE <<"0","s">>

\* the stats dict _emit_heartbeat builds before it asks the provider
base_stats(svc, t) ==
    [timestamp |-> FmtIso(t), session_start |-> FmtIso(svc.session_start),
     duration |-> get_duration(svc.session_start, t), heartbeat_count |-> svc.heartbeat_count]

\* what the stats provider returns when it returns
ProviderStats == [command_count |-> 1, project_path |-> ProjectPath]

\* a variant that loses the snapshot when the provider raises
stats_or_nothing(stats, outcome) ==
    IF outcome = "ok" THEN ProviderStats @@ stats ELSE [heartbeat_count |-> 0]

\* try: stats.update(self.get_stats()) except Exception: pass
with_stats(stats, outcome) ==
    IF outcome = "ok" THEN ProviderStats @@ stats ELSE stats

\* a variant without the try around the provider: its exception ends
\* _emit_heartbeat and kills the thread
after_stats_unguarded(outcome) == IF outcome = "raise" THEN "dead" ELSE "sink"

\* where _emit_heartbeat goes on after the provider: to the sink, whether
\* the provider returned or raised
after_stats(outcome) == "sink"

\* a variant without the try around the sink: its exception kills the thread
after_sink_unguarded(outcome) ==
    CASE outcome = "ok" -> "check"
      [] outcome = "raise" -> "dead"
      [] outcome = "hang" -> "hung"

\* where the thread goes on after the sink: back to the loop when the sink
\* returned or raised; nowhere when it never returns
after_sink(outcome) ==
    CASE outcome = "ok" -> "check"
      [] outcome = "raise" -> "check"
      [] outcome = "hang" -> "hung"

\* a variant of start() without the test of _running
start_unguarded(svc, n, t) ==
    [svc EXCEPT !.running = TRUE, !.session_start = t, !.thread = n + 1]

\* HeartbeatService.start at time t, n threads having been started before
start(svc, n, t) ==
    IF svc.running THEN svc
    ELSE [svc EXCEPT !.running = TRUE, !.session_start = t, !.thread = n + 1]

\* HeartbeatService.stop: self._running = False
stop(svc) == [svc EXCEPT !.running = FALSE]

\* the thread has ended: _run_loop returned ("done") or an exception left it
\* ("dead")
Ended(th) == th.pc \in {"done", "dead"}

\* a variant that joins without a timeout
join_untimed(th, waited) == Ended(th)

\* thread.join(timeout=2) returns when the thread has ended or the timeout
\* has elapsed
join_done(th, waited) == Ended(th) \/ waited >= JoinTimeout

\* no stats: the thread is not in _emit_heartbeat, the sink was not called
NoStats == [heartbeat_count |-> 0]

\* a thread at the top of _run_loop
NewLoop ==
    [pc |-> "check", ticks |-> 0, stats |-> NoStats, provider |-> "none", last |-> "none",
     failures |-> 0, sunk |-> NoStats, loaded |-> 0]

\* the step of the calling thread is its calls-th call, of operation op,
\* which found the service running or not
Called(op) ==
    [main EXCEPT !.calls = main.calls + 1, !.op = op, !.found = service.running]

\* HeartbeatService.start()
ServiceStart ==
    /\ main.pc = "idle"
    /\ main.calls < MaxCalls
    /\ service.running \/ Len(loops) < MaxLoops
    /\ service' = start(service, Len(loops), now)
    /\ loops' = IF service'.thread # service.thread THEN Append(loops, NewLoop) ELSE loops
    /\ main' = Called("start")
    /\ UNCHANGED sessionVars
    /\ UNCHANGED threadVars
    /\ UNCHANGED filterVars
    /\ UNCHANGED observerVars

\* HeartbeatService.stop() up to the call of join
ServiceStop ==
    /\ main.pc = "idle"
    /\ main.calls < MaxCalls
    /\ service' = stop(service)
    /\ main' = [Called("stop") EXCEPT !.pc = IF service.thread # 0 THEN "joining" ELSE "idle",
                                      !.waited = 0]
    /\ UNCHANGED loops
    /\ UNCHANGED sessionVars
    /\ UNCHANGED threadVars
    /\ UNCHANGED filterVars
    /\ UNCHANGED observerVars

\* a second passes while stop() waits in join
Wait ==
    /\ main.pc = "joining"
    /\ ~join_done(loops[service.thread], main.waited)
    /\ main.waited < MaxWait
    /\ main' = [main EXCEPT !.waited = main.waited + 1]
    /\ UNCHANGED <<service, loops>>
    /\ UNCHANGED sessionVars
    /\ UNCHANGED threadVars
    /\ UNCHANGED filterVars
    /\ UNCHANGED observerVars

\* join returns, and stop() with it
ServiceJoin ==
    /\ main.pc = "joining"
    /\ join_done(loops[service.thread], main.waited)
    /\ main' = [main EXCEPT !.pc = "idle"]
    /\ UNCHANGED <<service, loops>>
    /\ UNCHANGED sessionVars
    /\ UNCHANGED threadVars
    /\ UNCHANGED filterVars
    /\ UNCHANGED observerVars

\* what a step of thread i leaves unchanged
LoopFrame ==
    /\ UNCHANGED main
    /\ UNCHANGED sessionVars
    /\ UNCHANGED threadVars
    /\ UNCHANGED filterVars
    /\ UNCHANGED observerVars

\* _run_loop: while self._running
LoopCheck(i) ==
    /\ loops[i].pc = "check"
    /\ loops' = [loops EXCEPT ![i].pc = IF service.running THEN "sleep" ELSE "done"]
    /\ UNCHANGED service
    /\ LoopFrame

\* time.sleep(self.interval) ends
LoopWake(i) ==
    /\ loops[i].pc = "sleep"
    /\ loops[i].ticks < MaxTicks
    /\ loops' = [loops EXCEPT ![i].pc = "woke"]
    /\ UNCHANGED service
    /\ LoopFrame

\* if self._running: self._emit_heartbeat()
LoopWoke(i) ==
    /\ loops[i].pc = "woke"
    /\ loops' = [loops EXCEPT ![i].pc = IF service.running THEN "count" ELSE "check"]
    /\ UNCHANGED service
    /\ LoopFrame

\* _emit_heartbeat: self._heartbeat_count += 1 and the stats dict
LoopCount(i) ==
    /\ loops[i].pc = "count"
    /\ service' = [service EXCEPT !.heartbeat_count = service.heartbeat_count + 1]
    /\ loops' = [loops EXCEPT ![i].pc = "stats", ![i].ticks = loops[i].ticks + 1,
                              ![i].stats = base_stats(service', now),
                              ![i].provider = "none"]
    /\ LoopFrame

\* _emit_heartbeat: the call of get_stats, which returns or raises
LoopStats(i, outcome) ==
    /\ loops[i].pc = "stats"
    /\ loops' = [loops EXCEPT ![i].pc = after_stats(outcome),
                              ![i].stats = with_stats(loops[i].stats, outcome),
                              ![i].provider = outcome]
    /\ UNCHANGED service
    /\ LoopFrame

\* _emit_heartbeat: the call of on_heartbeat(stats), which returns, raises or
\* never returns
LoopSink(i, outcome) ==
    /\ loops[i].pc = "sink"
    /\ loops' = [loops EXCEPT ![i].pc = after_sink(outcome), ![i].last = outcome,
                              ![i].failures = IF outcome = "raise" THEN loops[i].failures + 1
                                              ELSE loops[i].failures,
                              ![i].sunk = loops[i].stats]
    /\ UNCHANGED service
    /\ LoopFrame

\* the steps of thread i
LoopStep(i) ==
    \/ LoopCheck(i)
    \/ LoopWake(i)
    \/ LoopWoke(i)
    \/ LoopCount(i)
    \/ \E outcome \in {"ok", "raise"} : LoopStats(i, outcome)
    \/ \E outcome \in {"ok", "raise", "hang"} : LoopSink(i, outcome)

NextBeat ==
    \/ Pass
    \/ ServiceStart
    \/ ServiceStop
    \/ Wait
    \/ ServiceJoin
    \/ \E i \in 1..Len(loops) : LoopCheck(i)
    \/ \E i \in 1..Len(loops) : LoopWake(i)
    \/ \E i \in 1..Len(loops) : LoopWoke(i)
    \/ \E i \in 1..Len(loops) : LoopCount(i)
    \/ \E i \in 1..Len(loops), outcome \in {"ok", "raise"} : LoopStats(i, outcome)
    \/ \E i \in 1..Len(loops), outcome \in {"ok", "raise", "hang"} : LoopSink(i, outcome)

SpecBeat == Init /\ [][NextBeat]_vars

\* the threads are scheduled and their sleeps end
SpecBeatFair ==
    /\ Init
    /\ [][NextBeat]_vars
    /\ \A i \in 1..MaxLoops : WF_vars(i \in 1..Len(loops) /\ LoopStep(i))

\* ------------------------------------------------------------------------
\* EventFilter.extract_error_summary on its own, applied to failed outcomes
\* whose stderr is put together from lines of the shapes the priority
\* patterns know, and of lines they do not know.
\* ------------------------------------------------------------------------

\* bound of the number of lines of stderr
MaxSummaryLines == 2

SummaryLines ==
    {<<>>, <<"p","a","n","i","c",":"," ","X">>, <<"E","r","r","o","r",":"," ","a">>, <<" "," ",
          "E","R","R","O","R"," "," ","b"," ">>, <<"T","r","a","c","e","b","a","c","k"," ","(",
          "m","o","s","t"," ","r","e","c","e","n","t"," ","c","a","l","l"," ","l","a","s","t",
          ")",":">>,
     <<"F","A","I","L","E","D",":"," ","t","1">>, <<"s","h","o","r","t">>, <<"a"," ","l","o",
           "n","g","e","r"," ","l","i","n","e">>, <<"F","a","t","a","l",":"," ","d","i","s","k">>}

\* '\n'.join(lines)
RECURSIVE JoinLines(_)
JoinLines(lines) ==
    IF Len(lines) = 0 THEN <<>>
    ELSE IF Len(lines) = 1 THEN lines[1]
    ELSE lines[1] \o <<"\n">> \o JoinLines(Tail(lines))

SummaryStderr == {JoinLines(ls) : ls \in SeqsUpTo(SummaryLines, MaxSummaryLines)}

SummaryStdout == {<<>>, <<"p","a","n","i","c",":"," ","o","u","t">>, <<"x","\n","E","x","c","e",
      "p","t","i","o","n",":"," ","o">>}

\* 0 and the exit codes of a failure; -1 is what TerminalShadow.execute
\* reports for a timeout
SummaryExitCodes == {0, 1, 2, 127, -1}

SummaryEvents ==
    {[command |-> <<"g","o"," ","t","e","s","t"," ",".","/",".",".",".">>, stdout |-> o, stderr |-> e, exit_code |-> x,
      duration_ms |-> 5, working_dir |-> ProjectPath, timestamp |-> 0] :
        o \in SummaryStdout, e \in SummaryStderr, x \in SummaryExitCodes}

InitSummary ==
    /\ SessionInit
    /\ event \in SummaryEvents
    /\ result = NoResult

\* EventFilter.extract_error_summary(event)
ExtractErrorSummary ==
    /\ result.op = "none"
    /\ result' = [op |-> "summary", value |-> extract_error_summary(event)]
    /\ UNCHANGED event
    /\ UNCHANGED sessionVars
    /\ UNCHANGED threadVars
    /\ UNCHANGED serviceVars
    /\ UNCHANGED observerVars

SpecSummary == InitSummary /\ [][ExtractErrorSummary]_vars

\* ------------------------------------------------------------------------
\* HandoffUpdater._truncate on its own, applied to a text and then to its
\* own result with the same limit.
\* ------------------------------------------------------------------------

\* bounds of the texts and of the limits
MaxTextLen == 4
MaxLimit == 3

TextChars == {" ", "a", "b", "\n"}

TruncateCalls ==
    {[text |-> t, max_length |-> n] :
        t \in SeqsUpTo(TextChars, MaxTextLen), n \in 0..MaxLimit}

InitTruncate ==
    /\ SessionInit
    /\ event \in TruncateCalls
    /\ result = NoResult

\* self._truncate(text, max_length)
Truncate ==
    /\ result.op = "none"
    /\ result' = [op |-> "truncate", value |-> truncate(event.text, event.max_length),
                  first |-> <<>>]
    /\ UNCHANGED event
    /\ UNCHANGED sessionVars
    /\ UNCHANGED threadVars
    /\ UNCHANGED serviceVars
    /\ UNCHANGED observerVars

\* self._truncate(result, max_length) on what the first call returned
TruncateAgain ==
    /\ result.op = "truncate"
    /\ result' = [op |-> "truncate_again", value |-> truncate(result.value, event.max_length),
                  first |-> result.value]
    /\ UNCHANGED event
    /\ UNCHANGED sessionVars
    /\ UNCHANGED threadVars
    /\ UNCHANGED serviceVars
    /\ UNCHANGED observerVars

NextTruncate ==
    \/ Truncate
    \/ TruncateAgain

SpecTruncate == InitTruncate /\ [][NextTruncate]_vars

\* ------------------------------------------------------------------------
\* EventFilter.classify on outcomes whose output is put together from the
\* words of the significance patterns.
\* ------------------------------------------------------------------------

\* bound of the number of words of an output
MaxOutputWords == 2

OutputWords ==
    {<<"f","a","t","a","l",":">>, <<"p","a","n","i","c">>, <<"T","r","a","c","e","b","a","c","k">>, <<"t",
          "i","m","e","o","u","t">>, <<"e","r","r","o","r">>, <<"F","A","I","L","E","D">>, <<"c",
          "r","a","s","h","e","d">>,
     <<"c","o","m","m","i","t","t","e","d">>, <<"o","k">>, <<"e","r","r","o","r","s">>}

OutputTexts == {JoinWords(ws) : ws \in SeqsUpTo(OutputWords, MaxOutputWords)}

OutputCommands == {<<"f","o","o">>, <<"g","i","t"," ","r","e","b","a","s","e"," ","m","a","i",
      "n">>, <<"l","s">>, <<"m","a","k","e">>, <<" ">>}

\* the text is the stdout or the stderr of the outcome
OutputEvents ==
    {[command |-> c, stdout |-> IF err THEN <<>> ELSE o, stderr |-> IF err THEN o ELSE <<>>,
      exit_code |-> x, duration_ms |-> 5, working_dir |-> ProjectPath, timestamp |-> 0] :
        c \in OutputCommands, o \in OutputTexts, err \in BOOLEAN, x \in ExitCodes}

InitOutput ==
    /\ SessionInit
    /\ event \in OutputEvents
    /\ result = NoResult

SpecOutput == InitOutput /\ [][Classify]_vars

\* ------------------------------------------------------------------------
\* The life of the file: the session from before its construction, on a path
\* where HANDOFF.md is absent or exists, with the file being removed from
\* outside at any time.
\* ------------------------------------------------------------------------

\* no file at handoff_path: an existing file has at least one line
Absent == <<>>

\* the caller before it constructs the ShadowSession
Unborn == [pc |-> "new", section |-> "none", entry |-> <<>>, content |-> <<>>]

\* a variant that leaves the creation of the file to the first insertion
ensure_on_write_only(content, t) == content

\* HandoffUpdater._ensure_file_exists at time t
ensure_file_exists(content, t) == IF content = Absent THEN create_template(t) ELSE content

\* HandoffUpdater._insert_entry on the file: the file is created first when
\* it does not exist
insert_entry_file(content, section_type, entry, t) ==
    insert_entry(IF content = Absent THEN ensure_file_exists(content, t) ELSE content,
                 section_type, entry)

\* HandoffUpdater._update_timestamp on the file: nothing when it does not
\* exist
update_timestamp_file(content, t) ==
    IF content = Absent THEN content ELSE update_timestamp(content, t)

InitLife ==
    /\ ServiceInit
    /\ observed = NoObserver
    /\ file \in {Absent, create_template(0)}
    /\ now = 0
    /\ command_count = 0
    /\ last_command = None
    /\ heartbeat = "none"
    /\ heartbeat_count = 0
    /\ recent = NoCall
    /\ log = <<>>
    /\ caller = Unborn
    /\ beat = Idle
    /\ event = None
    /\ result = NoResult

\* ShadowSession.__init__: HandoffUpdater.__init__ calls _ensure_file_exists
Construct ==
    /\ caller.pc = "new"
    /\ caller' = Idle
    /\ file' = ensure_file_exists(file, now)
    /\ UNCHANGED <<now, command_count, last_command, heartbeat, heartbeat_count, recent, log, beat>>
    /\ UNCHANGED filterVars
    /\ UNCHANGED serviceVars
    /\ UNCHANGED observerVars

\* the file is removed by someone else
Remove ==
    /\ file # Absent
    /\ file' = Absent
    /\ UNCHANGED <<now, command_count, last_command, heartbeat, heartbeat_count, recent, log>>
    /\ UNCHANGED threadVars
    /\ UNCHANGED filterVars
    /\ UNCHANGED serviceVars
    /\ UNCHANGED observerVars

\* ShadowSession.execute on the file
ExecuteFile(outcome, force_log) ==
    /\ command_count < MaxCommands
    /\ caller.pc = "idle"
    /\ LET cmd_result == CommandResult(outcome, now)
           event_type == classify(cmd_result)
       IN  /\ command_count' = command_count + 1
           /\ last_command' = cmd_result.command
           /\ IF event_type = NOISE
              THEN /\ file' = file
                   /\ log' = log
              ELSE /\ file' = update_timestamp_file(
                                  insert_entry_file(file, event_section(event_type),
                                                    entry_of(cmd_result), now), now)
                   /\ log' = Append(log, Logged(event_section(event_type),
                                                entry_of(cmd_result)))
    /\ UNCHANGED <<now, heartbeat, heartbeat_count, recent>>
    /\ UNCHANGED threadVars
    /\ UNCHANGED filterVars
    /\ UNCHANGED serviceVars
    /\ UNCHANGED observerVars

NextLife ==
    \/ Pass
    \/ Construct
    \/ Remove
    \/ \E c \in Calls : ExecuteFile(c[1], c[2])

SpecLife == InitLife /\ [][NextLife]_vars

\* ------------------------------------------------------------------------
\* ShadowSession.execute step by step, with or without an on_event callback:
\* TerminalShadow.execute, then append_event, then the callback.
\* ------------------------------------------------------------------------

\* what subprocess.run can come back with, and what TerminalShadow.execute
\* makes of subprocess.TimeoutExpired
TimedOut ==
    [command |-> <<"s","l","e","e","p"," ","9","9","9">>, stdout |-> <<>>, stderr |-> <<"C","o",
          "m","m","a","n","d"," ","t","i","m","e","d"," ","o","u","t"," ","a","f","t","e","r",
          " ","3","0","0","s">>,
     exit_code |-> -1]

ObservedOutcomes ==
    {o \in SessionOutcomes : o.command \in {<<"m","a","k","e">>, <<"g","i","t"," ","r","e","b",
          "a","s","e"," ","m","a","i","n">>, <<"l","s">>}}
    \cup {TimedOut}

\* force_log changes nothing for an outcome that is not NOISE
ObservedCalls ==
    {c \in ObservedOutcomes \X BOOLEAN : c[2] => classify(CommandResult(c[1], 0)) = NOISE}

\* the caller between two calls of execute: the outcome of its last call,
\* whether that was forced, and the outcomes of all its calls
Caller(pc, content, force, made) ==
    [pc |-> pc, content |-> content, force |-> force, made |-> made]

\* a variant that counts the commands that completed only
next_count_completed(count, cmd_result) ==
    IF cmd_result.exit_code = -1 THEN count ELSE count + 1

\* TerminalShadow.execute: self._command_count += 1
next_count(count, cmd_result) == count + 1

\* a variant that tells the observer of every outcome
should_log_all(force_log, event_type) == TRUE

\* ShadowSession.execute: if force_log or event_type != EventType.NOISE
should_log(force_log, event_type) == force_log \/ event_type # NOISE

InitObserve ==
    /\ ServiceInit
    /\ observed \in {[on |-> b, calls |-> <<>>] : b \in BOOLEAN}
    /\ file = create_template(0)
    /\ now = 0
    /\ command_count = 0
    /\ last_command = None
    /\ heartbeat = "none"
    /\ heartbeat_count = 0
    /\ recent = NoCall
    /\ log = <<>>
    /\ caller = Caller("idle", None, FALSE, <<>>)
    /\ beat = Idle
    /\ event = None
    /\ result = NoResult

\* execute up to the test of force_log and the event type:
\* TerminalShadow.execute and EventFilter.classify
ExecShadow(outcome, force_log) ==
    /\ caller.pc = "idle"
    /\ Len(caller.made) < MaxCommands
    /\ LET cmd_result == CommandResult(outcome, now)
       IN  /\ command_count' = next_count(command_count, cmd_result)
           /\ last_command' = cmd_result.command
           /\ caller' = Caller(IF should_log(force_log, classify(cmd_result))
                               THEN "append" ELSE "idle",
                               cmd_result, force_log, Append(caller.made, outcome))
    /\ UNCHANGED <<file, now, heartbeat, heartbeat_count, recent, log, beat>>
    /\ UNCHANGED filterVars
    /\ UNCHANGED serviceVars
    /\ UNCHANGED observerVars

\* self.updater.append_event(result, event_type, error_summary, files)
ExecAppend ==
    /\ caller.pc = "append"
    /\ LET cmd_result == caller.content
           event_type == classify(cmd_result)
       IN  /\ file' = append_event(file, cmd_result, event_type,
                                   summary_of(cmd_result, event_type),
                                   files_of(cmd_result, event_type), now)
           /\ log' = IF event_type = NOISE THEN log
                     ELSE Append(log, Logged(event_section(event_type), entry_of(cmd_result)))
    /\ caller' = [caller EXCEPT !.pc = "notify"]
    /\ UNCHANGED <<now, command_count, last_command, heartbeat, heartbeat_count, recent, beat>>
    /\ UNCHANGED filterVars
    /\ UNCHANGED serviceVars
    /\ UNCHANGED observerVars

\* if self.on_event: self.on_event(result, event_type); return result
ExecNotify ==
    /\ caller.pc = "notify"
    /\ observed' = IF observed.on
                   THEN [observed EXCEPT !.calls =
                            Append(@, [outcome |-> caller.content,
                                       category |-> classify(caller.content)])]
                   ELSE observed
    /\ caller' = [caller EXCEPT !.pc = "idle"]
    /\ UNCHANGED <<file, now, command_count, last_command, heartbeat, heartbeat_count, recent,
                   log, beat>>
    /\ UNCHANGED filterVars
    /\ UNCHANGED serviceVars

NextObserve ==
    \/ Pass
    \/ \E c \in ObservedCalls : ExecShadow(c[1], c[2])
    \/ ExecAppend
    \/ ExecNotify

SpecObserve == InitObserve /\ [][NextObserve]_vars

\* ------------------------------------------------------------------------
\* The session and its configuration: ShadowSession constructed with a
\* ShadowConfig argument, with a configuration file in the project, or with
\* neither, and the classification its execute then makes.
\* ------------------------------------------------------------------------

\* ShadowConfig.ignore_commands as the dataclass installs it
DefaultIgnoreCommands ==
    {<<"l","s">>, <<"c","d">>, <<"p","w","d">>, <<"c","l","e","a","r">>, <<"e","x","i","t">>,
     <<"c","a","t">>, <<"h","e","a","d">>, <<"t","a","i","l">>, <<"l","e","s","s">>, <<"m","o",
           "r","e">>,
     <<"e","c","h","o">>, <<"p","r","i","n","t","f">>}

\* the ignore sets a configuration is written with
ConfiguredIgnoreSets == {{}, {<<"m","a","k","e">>}, {<<"w","h","o","a","m","i">>, <<"g","i","t">>}, DefaultIgnoreCommands}

\* where ShadowSession.__init__ takes its configuration from
ConfigSources == {"argument", "file", "none"}

\* self.config after ShadowSession.__init__: the argument, else the first
\* configuration file of the project, else ShadowConfig(project_path=...)
ShadowConfig(source, ignore_commands) ==
    [source |-> source,
     ignore_commands |-> IF source = "none" THEN DefaultIgnoreCommands ELSE ignore_commands]

\* self.filter = EventFilter(): __post_init__ installs its own set
EventFilter == [IGNORE_COMMANDS |-> IGNORE_COMMANDS]

\* the caller before it constructs the session, and the session it holds
Unconfigured == [pc |-> "new", config |-> ShadowConfig("none", {}), filter |-> EventFilter]

Configured(config) == [pc |-> "idle", config |-> config, filter |-> EventFilter]

\* what subprocess.run can come back with
ConfigOutcomes ==
    {o \in SessionOutcomes : o.command \in {<<"m","a","k","e">>, <<"g","i","t"," ","r","e","b",
          "a","s","e"," ","m","a","i","n">>, <<"l","s">>}}
    \cup {[command |-> <<"m","a","k","e">>, stdout |-> <<>>, stderr |-> <<>>, exit_code |-> 0],
          [command |-> <<"w","h","o","a","m","i">>, stdout |-> <<"r","o","o","t">>, stderr |-> <<>>, exit_code |-> 0],
          [command |-> <<"G","i","t"," ","s","t","a","t","u","s">>, stdout |-> <<"2"," ","t",
                "e","s","t","s"," ","f","a","i","l","e","d">>, stderr |-> <<>>,
           exit_code |-> 0],
          [command |-> <<"c","a","t"," ","l","o","g">>, stdout |-> <<"e","r","r","o","r",":",
                " ","x">>, stderr |-> <<>>, exit_code |-> 0],
          [command |-> <<"w","h","o","a","m","i"," ","-","x">>, stdout |-> <<>>, stderr |-> <<"i",
                "n","v","a","l","i","d"," ","o","p","t","i","o","n">>,
           exit_code |-> 1]}

InitConfig ==
    /\ ServiceInit
    /\ observed = NoObserver
    /\ file = create_template(0)
    /\ now = 0
    /\ command_count = 0
    /\ last_command = None
    /\ heartbeat = "none"
    /\ heartbeat_count = 0
    /\ recent = NoCall
    /\ log = <<>>
    /\ caller = Unconfigured
    /\ beat = Idle
    /\ event = None
    /\ result = NoResult

\* ShadowSession.__init__
ConstructWith(source, ignore_commands) ==
    /\ caller.pc = "new"
    /\ caller' = Configured(ShadowConfig(source, ignore_commands))
    /\ file' = ensure_file_exists(file, now)
    /\ UNCHANGED <<now, command_count, last_command, heartbeat, heartbeat_count, recent, log,
                   beat>>
    /\ UNCHANGED filterVars
    /\ UNCHANGED serviceVars
    /\ UNCHANGED observerVars

\* ShadowSession.execute of the configured session, force_log left False
ExecuteConfigured(outcome) ==
    /\ caller.pc = "idle"
    /\ command_count < MaxCommands
    /\ LET cmd_result == CommandResult(outcome, now)
           event_type == classify(cmd_result)
       IN  /\ command_count' = next_count(command_count, cmd_result)
           /\ last_command' = cmd_result.command
           /\ event' = cmd_result
           /\ result' = [op |-> "classify", value |-> event_type]
           /\ IF should_log(FALSE, event_type)
              THEN /\ file' = append_event(file, cmd_result, event_type,
                                           summary_of(cmd_result, event_type),
                                           files_of(cmd_result, event_type), now)
                   /\ log' = Append(log, Logged(event_section(event_type),
                                                entry_of(cmd_result)))
              ELSE /\ file' = file
                   /\ log' = log
    /\ UNCHANGED <<now, heartbeat, heartbeat_count, recent>>
    /\ UNCHANGED threadVars
    /\ UNCHANGED serviceVars
    /\ UNCHANGED observerVars

NextConfig ==
    \/ Pass
    \/ \E source \in ConfigSources, ignore_commands \in ConfiguredIgnoreSets :
           ConstructWith(source, ignore_commands)
    \/ \E outcome \in ConfigOutcomes : ExecuteConfigured(outcome)

SpecConfig == InitConfig /\ [][NextConfig]_vars

\* ------------------------------------------------------------------------
\* The tick counter: self._heartbeat_count += 1 reads the attribute and
\* stores the sum in two steps, in the timer threads and in the thread
\* that calls emit_now; another thread may run between the two.
\* ------------------------------------------------------------------------

\* bound of the calls of emit_now
MaxEmits == 2

\* the value STORE_ATTR writes: one more than the value LOAD_ATTR read
increment(count, loaded) == loaded + 1

\* _emit_heartbeat in thread i: the read of self._heartbeat_count
LoopLoad(i) ==
    /\ loops[i].pc = "count"
    /\ loops' = [loops EXCEPT ![i].pc = "store", ![i].loaded = service.heartbeat_count]
    /\ UNCHANGED service
    /\ LoopFrame

\* _emit_heartbeat in thread i: the store of the sum, and the stats dict
LoopStore(i) ==
    /\ loops[i].pc = "store"
    /\ service' = [service EXCEPT
                      !.heartbeat_count = increment(service.heartbeat_count, loops[i].loaded)]
    /\ loops' = [loops EXCEPT ![i].pc = "stats", ![i].ticks = loops[i].ticks + 1,
                              ![i].stats = base_stats(service', now),
                              ![i].provider = "none"]
    /\ LoopFrame

\* emit_now(): _emit_heartbeat in the calling thread, up to the read
EmitNowLoad ==
    /\ main.pc = "idle"
    /\ main.calls < MaxCalls
    /\ main.ticks < MaxEmits
    /\ main' = [Called("emit_now") EXCEPT !.pc = "store", !.loaded = service.heartbeat_count]
    /\ UNCHANGED <<service, loops>>
    /\ UNCHANGED sessionVars
    /\ UNCHANGED threadVars
    /\ UNCHANGED filterVars
    /\ UNCHANGED observerVars

\* emit_now(): the store of the sum
EmitNowStore ==
    /\ main.pc = "store"
    /\ service' = [service EXCEPT
                      !.heartbeat_count = increment(service.heartbeat_count, main.loaded)]
    /\ main' = [main EXCEPT !.pc = "emit", !.ticks = main.ticks + 1]
    /\ UNCHANGED loops
    /\ UNCHANGED sessionVars
    /\ UNCHANGED threadVars
    /\ UNCHANGED filterVars
    /\ UNCHANGED observerVars

\* emit_now(): the stats provider and the sink are called; what they raise
\* is dropped, and emit_now returns
EmitNowSink ==
    /\ main.pc = "emit"
    /\ main' = [main EXCEPT !.pc = "idle"]
    /\ UNCHANGED <<service, loops>>
    /\ UNCHANGED sessionVars
    /\ UNCHANGED threadVars
    /\ UNCHANGED filterVars
    /\ UNCHANGED observerVars

NextEmit ==
    \/ ServiceStart
    \/ ServiceStop
    \/ Wait
    \/ ServiceJoin
    \/ EmitNowLoad
    \/ EmitNowStore
    \/ EmitNowSink
    \/ \E i \in 1..Len(loops) : LoopCheck(i)
    \/ \E i \in 1..Len(loops) : LoopWake(i)
    \/ \E i \in 1..Len(loops) : LoopWoke(i)
    \/ \E i \in 1..Len(loops) : LoopLoad(i)
    \/ \E i \in 1..Len(loops) : LoopStore(i)
    \/ \E i \in 1..Len(loops), outcome \in {"ok", "raise"} : LoopStats(i, outcome)
    \/ \E i \in 1..Len(loops), outcome \in {"ok", "raise", "hang"} : LoopSink(i, outcome)

SpecEmit == Init /\ [][NextEmit]_vars

\* ------------------------------------------------------------------------
\* The timestamp update on documents whose entries quote the text of the
\* Updated field: calls of execute at different times, on outcomes whose
\* command and output contain '**Updated:** '.
\* ------------------------------------------------------------------------

\* what subprocess.run can come back with
StampOutcomes ==
    {[command |-> <<"g","i","t"," ","c","o","m","m","i","t"," ","-","m"," ","'","*","*","U","p",
          "d","a","t","e","d",":","*","*"," ","x","'">>, stdout |-> <<"1"," ","f","i","l","e",
          " ","c","h","a","n","g","e","d">>,
      stderr |-> <<>>, exit_code |-> 0],
     [command |-> <<"g","r","e","p"," ","U","p","d","a","t","e","d"," ","H","A","N","D","O","F",
           "F",".","m","d"," ","n","o","f","i","l","e">>, stdout |-> <<"*","*","U","p","d","a",
           "t","e","d",":","*","*"," ","n","e","v","e","r">>,
      stderr |-> <<"g","r","e","p",":"," ","n","o","f","i","l","e",":"," ","N","o"," ","s","u",
            "c","h"," ","f","i","l","e"," ","o","r"," ","d","i","r","e","c","t","o","r","y">>, exit_code |-> 2],
     [command |-> <<"p","y","t","e","s","t">>, stdout |-> <<"*","*","U","p","d","a","t","e","d",
           ":","*","*"," ","3"," ","p","a","s","s","e","d">>, stderr |-> <<>>,
      exit_code |-> 0],
     [command |-> <<"m","a","k","e">>, stdout |-> <<>>, stderr |-> <<"a",".","c",":","3",":",
           " ","e","r","r","o","r",":"," ","b","a","d">>, exit_code |-> 2],
     [command |-> <<"g","i","t"," ","r","e","b","a","s","e"," ","m","a","i","n">>, stdout |-> <<>>, stderr |-> <<>>, exit_code |-> 0],
     [command |-> <<"l","s">>, stdout |-> <<"a",".","c">>, stderr |-> <<>>, exit_code |-> 0]}

\* force_log changes nothing for an outcome that is not NOISE
StampCalls ==
    {c \in StampOutcomes \X BOOLEAN : c[2] => classify(CommandResult(c[1], 0)) = NOISE}

NextStamp ==
    \/ Pass
    \/ \E c \in StampCalls : Execute(c[1], c[2])

SpecStamp == Init /\ [][NextStamp]_vars

\* ------------------------------------------------------------------------
\* Properties
\* ------------------------------------------------------------------------

\* the line of the document that first equals the given line, 0 when none
LineOf(content, line) ==
    IF \E k \in 1..Len(content) : content[k] = line
    THEN Min({k \in 1..Len(content) : content[k] = line})
    ELSE 0

\* the title line of an accepted entry
TitleLine(entry) == entry[2]

\* C1: when append_event and append_heartbeat run on the same document, no
\* update is lost: once both threads are done, the document holds the title
\* line of every entry whose insertion completed.
C1_NoLostUpdate ==
    (caller.pc = "idle" /\ beat.pc = "idle")
        => \A i \in 1..Len(log) : LineOf(file, TitleLine(log[i].entry)) > 0

\* the step accepted an entry
EntryAccepted == Len(log') > Len(log)

\* what the step leaves of a document it inserted into: execute updates the
\* timestamp after the insertion, the heartbeat does not
AfterStep(content) ==
    IF command_count' # command_count THEN update_timestamp(content, now) ELSE content

\* the document with the lines of an entry put in at index idx
WithEntryAt(content, idx, entry) ==
    SubSeq(content, 1, idx - 1) \o entry \o SubSeq(content, idx, Len(content))

\* idx is the end of the region of a marker: the first line starting with
\* '## ' that lies at least two lines below the first line that contains the
\* marker text, or the end of the document when there is no such line
IsRegionEnd(content, marker, idx) ==
    LET first == Min(MarkerLines(content, marker))
    IN  /\ idx > first
        /\ \A j \in (first + 2)..(idx - 1) : ~StartsWith(content[j], <<"#","#"," ">>)
        /\ \/ idx = Len(content) + 1
           \/ idx >= first + 2 /\ StartsWith(content[idx], <<"#","#"," ">>)

ErrorTitle(entry) == SubSeq(TitleLine(entry), Len(<<"#","#","#"," ","U+26A0"," ","E","r","r",
      "o","r",":"," ">>) + 1, Len(TitleLine(entry)))

\* the titles of the count most recent entries of the log, most recent first
RecentTitles(count) ==
    [k \in 1..(IF Len(log) < count THEN Len(log) ELSE count) |->
        ErrorTitle(log[Len(log) + 1 - k].entry)]

\* C3: after N error entries were inserted into a fresh template document,
\* get_recent_errors(count) returns the titles of the min(count, N) most
\* recent entries, most recent first.
C3_RecentErrorsReadBack ==
    (recent.count > 0 /\ \A i \in 1..Len(log) : log[i].section = "error")
        => recent.titles = RecentTitles(recent.count)

\* the heartbeat entries of a document
HeartbeatEntries(content) ==
    Cardinality({k \in 1..Len(content) : StartsWith(content[k], <<"#","#","#"," ","[","H","E",
          "A","R","T","B","E","A","T","]"," ">>)})

\* C4: while the heartbeat is running, every timer tick inserts one
\* heartbeat entry into the document, also before the first command.
C4_EveryTickInserts ==
    [][(heartbeat = "running" /\ heartbeat_count' = heartbeat_count + 1)
          => HeartbeatEntries(file') = HeartbeatEntries(file) + 1]_vars

\* C5: an outcome with a non-zero exit code is classified as Error, whatever
\* its command and its output.
C5_NonZeroExitIsError ==
    (result.op = "classify" /\ event.exit_code # 0) => result.value = ERROR

\* a command of the ignore set that failed was classified as Error
C5_IgnoredCommandFailed ==
    /\ result.op = "classify"
    /\ event.exit_code # 0
    /\ event.command = <<"l","s">>
    /\ result.value = ERROR

\* the first whitespace-delimited token of the command, lower-cased, is in
\* the ignore set
FirstTokenIgnored(outcome) ==
    /\ Len(split(outcome.command)) > 0
    /\ lower(split(outcome.command)[1]) \in IGNORE_COMMANDS

\* the category of the lowest-numbered rule of the ordered list that holds,
\* rule 2 being given
RuleCategory(outcome, rule2) ==
    IF outcome.exit_code # 0 THEN ERROR
    ELSE IF rule2 THEN NOISE
    ELSE IF FirstTokenIgnored(outcome) THEN NOISE
    ELSE IF \E c \in ALWAYS_CAPTURE : Contains(lower(outcome.command), c) THEN SUCCESS
    ELSE IF OutputHits(outcome) # {} THEN OutputCategory(outcome)
    ELSE IF IsDecisionCommand(outcome) THEN DECISION
    ELSE NOISE

\* C6 (as the code has it): classify returns the category of the first rule
\* that holds, rule 2 being "the command has no whitespace-delimited token"
\* (it is empty or consists of whitespace only).
C6_FirstRuleWins ==
    result.op = "classify"
        => result.value = RuleCategory(event, Len(split(event.command)) = 0)

\* an always-capture command with a failure word in its output was
\* classified as Success
C6_CaptureBeforeOutput ==
    /\ result.op = "classify"
    /\ event.exit_code = 0
    /\ event.command = <<"g","i","t"," ","c","o","m","m","i","t">>
    /\ event.stdout = <<"e","r","r","o","r",":"," ","x">>
    /\ result.value = SUCCESS

\* C6 (as the specification has it): classify returns the category of the
\* first rule that holds, rule 2 being "the command is empty".
C6_FirstRuleWinsEmptyCommand ==
    result.op = "classify" => result.value = RuleCategory(event, Len(event.command) = 0)

\* C7: an outcome with exit code zero whose first command token, lower-cased,
\* is in the ignore set is classified as Noise, whatever follows the token
\* and whatever the output.
C7_IgnoredIsNoise ==
    (result.op = "classify" /\ event.exit_code = 0 /\ FirstTokenIgnored(event))
        => result.value = NOISE

\* an upper-case ignore-set command with an argument and an error word in its
\* output was classified as Noise
C7_UpperCaseIgnored ==
    /\ result.op = "classify"
    /\ event.exit_code = 0
    /\ event.command = <<"L","S"," ","g","i","t">>
    /\ event.stdout = <<"e","r","r","o","r",":"," ","x">>
    /\ result.value = NOISE

\* C8: extract_file_context returns no token that begins with 'http'.
C8_NoHttpToken ==
    result.op = "files"
        => \A i \in 1..Len(result.value) : ~StartsWith(result.value[i], <<"h","t","t","p">>)

\* every match of the scan, pattern by pattern, left to right
AllMatches(outcome) ==
    findall(file_patterns[1], combined_text(outcome))
    \o findall(file_patterns[2], combined_text(outcome))
    \o findall(file_patterns[3], combined_text(outcome))

\* where the scan first sees a token, 0 when it never does
FirstSeen(scan, token) ==
    IF \E k \in 1..Len(scan) : scan[k] = token
    THEN Min({k \in 1..Len(scan) : scan[k] = token})
    ELSE 0

\* C9: extract_file_context returns at most 10 tokens, without duplicates,
\* in the order the scan first sees them, each shorter than 200 characters.
C9_FileContextBounded ==
    LET scan == AllMatches(event)
        seen == [i \in 1..Len(result.value) |-> FirstSeen(scan, result.value[i])]
    IN  result.op = "files"
            => /\ Len(result.value) <= 10
               /\ \A i \in 1..Len(result.value) :
                     Len(result.value[i]) < 200 /\ seen[i] > 0
               /\ \A i, j \in 1..Len(result.value) : i < j => seen[i] < seen[j]

\* the scan saw more than 10 different tokens, one of them twice, and 10
\* were returned
C9_CutAtTen ==
    /\ result.op = "files"
    /\ Len(result.value) = 10
    /\ Len(unique(scanned_files(event))) > 10
    /\ Len(scanned_files(event)) > Len(unique(scanned_files(event)))

\* index idx lies in the section that the header line "marker" opens: the
\* nearest line above it that starts with '## ' is that header
InSection(content, marker, idx) ==
    LET above == {h \in 1..(idx - 1) : StartsWith(content[h], <<"#","#"," ">>)}
    IN  above # {} /\ content[Max(above)] = marker

\* C10: an accepted entry is inserted inside the section of its category,
\* after that section's marker line and before the next '## ' header,
\* whatever text the entries inserted before it carry.
C10_InsertedInOwnSection ==
    [][EntryAccepted
          => \E idx \in 1..(Len(file) + 1) :
                /\ InSection(file, SECTIONS[log'[Len(log')].section], idx)
                /\ file' = AfterStep(WithEntryAt(file, idx, log'[Len(log')].entry))]_vars

\* the section markers the updater recognizes: SECTIONS and the fall-back
\* insertion point of INSERT_BEFORE
RecognizedMarkers ==
    {SECTIONS[s] : s \in SectionTypes} \cup {<<"#","#"," ","P","R","E","V","I","O","U","S","L",
          "Y"," ","C","O","M","P","L","E","T","E","D">>}

\* the lines of the document that are the given marker
MarkerHeaders(content, marker) == {i \in 1..Len(content) : content[i] = marker}

\* C11: after ensure_exists and any sequence of append_event and
\* append_heartbeat calls, the document has exactly one occurrence of each
\* recognized section marker: exactly one of its lines is that marker.
C11_OneMarkerEach ==
    \A marker \in RecognizedMarkers : Cardinality(MarkerHeaders(file, marker)) = 1

\* the value of the header's Updated field: the text after '**Updated:** '
\* on the first line that starts with it
UpdatedField(content) ==
    LET k == Min({i \in 1..Len(content) : StartsWith(content[i], <<"*","*","U","p","d","a","t",
          "e","d",":","*","*"," ">>)})
    IN  SubSeq(content[k], Len(<<"*","*","U","p","d","a","t","e","d",":","*","*"," ">>) + 1, Len(content[k]))

\* C12: the header's Updated timestamp is the time of the most recent
\* successful write: every step that inserts an entry, of whichever kind
\* (error, success, decision or heartbeat), leaves the time of that step in
\* the Updated field.
C12_UpdatedIsLastWrite ==
    [][EntryAccepted => UpdatedField(file') = FmtMinute(now)]_vars

\* the section of the entry the step accepted, and its lines
NewSection == log'[Len(log')].section

NewEntry == log'[Len(log')].entry

ReadStep ==
    \/ caller.pc \in {"read", "ts_read"} /\ caller'.pc # caller.pc
    \/ beat.pc = "read" /\ beat'.pc # beat.pc

\* a whole document begins with the first line of the template, which no
\* insertion and no timestamp update changes
WholeDocument(content) == content[1] = create_template(0)[1]

\* C14: a reader never observes a partially written document: what a read
\* step finds in the file is a whole document, never the empty or truncated
\* file that a writer has opened and not yet written.
C14_ReadersSeeWholeDocument ==
    [][ReadStep => WholeDocument(file)]_vars

\* the category the ordered rules give an outcome
NoiseByRules(outcome) == RuleCategory(outcome, Len(split(outcome.command)) = 0) = NOISE

\* C15: an outcome that is Noise and not force-logged causes no write:
\* ShadowSession.execute leaves the document as it is, byte for byte, and
\* adds no entry of any kind.
C15_NoiseWritesNothing ==
    [][\A outcome \in SessionOutcomes :
          (NoiseByRules(outcome) /\ Execute(outcome, FALSE))
              => file' = file /\ log' = log]_vars

\* after an error entry was logged, an ls that succeeded was executed and
\* counted, and the document holds the error entry and nothing else
C15_NoiseAfterError ==
    /\ command_count = 2
    /\ last_command = <<"l","s">>
    /\ Len(log) = 1
    /\ log[1].section = "error"
    /\ \E idx \in 1..Len(create_template(0)), t \in 0..now :
          file = update_timestamp(WithEntryAt(create_template(0), idx, log[1].entry), t)

\* C16: when execute is called with force_log set, the outcome is always
\* logged: the call inserts an entry for it into the document, also when
\* classify returns Noise.
C16_ForcedIsLogged ==
    [][\A outcome \in SessionOutcomes :
          Execute(outcome, TRUE) => (EntryAccepted /\ file' # file)]_vars

\* the step is a call of start(), of stop()
StartCalled == main'.calls = main.calls + 1 /\ main'.op = "start"

StopCalled == main'.calls = main.calls + 1 /\ main'.op = "stop"

\* C17: the scheduler is a two-state machine.  start() on an Idle instance
\* makes it Running and begins the timer; start() on a Running instance
\* changes nothing (no second timer, session start not reset); stop() on a
\* Running instance makes it Idle; stop() on an Idle instance changes nothing.
C17_TwoStateMachine ==
    [][/\ (StartCalled /\ ~service.running)
            => /\ service'.running
               /\ service'.session_start = now
               /\ loops' = Append(loops, NewLoop)
               /\ service'.thread = Len(loops')
       /\ (StartCalled /\ service.running) => (service' = service /\ loops' = loops)
       /\ (StopCalled /\ service.running)
            => (service' = [service EXCEPT !.running = FALSE] /\ loops' = loops)
       /\ (StopCalled /\ ~service.running) => (service' = service /\ loops' = loops)]_vars

\* start() was called a minute after the service was started and found it
\* running: there is one timer thread and the session start is the old one
C17_StartedWhileRunning ==
    /\ main.op = "start"
    /\ main.found
    /\ main.calls = 2
    /\ now = 1
    /\ service.running
    /\ service.session_start = 0
    /\ Len(loops) = 1

\* thread i has made the sink call of its k-th tick
SinkCalled(i, k) ==
    /\ i <= Len(loops)
    /\ k >= 1
    /\ \/ loops[i].ticks > k
       \/ loops[i].ticks = k /\ loops[i].pc \notin {"stats", "sink"}

\* the sink call of the k-th tick of thread i is its last, it raised, and
\* the thread has not left _run_loop through its while condition since
SinkRaised(i, k) ==
    /\ SinkCalled(i, k)
    /\ loops[i].ticks = k
    /\ loops[i].last = "raise"
    /\ loops[i].pc # "done"

\* C18: when the sink raises on a tick, the failure is swallowed and the
\* timer loop keeps running: as long as the scheduler stays Running, the
\* next tick of the thread occurs and invokes the sink again.
C18_TicksGoOnAfterSinkFailure ==
    \A i \in 1..MaxLoops, k \in 1..(MaxTicks - 1) :
        (SinkRaised(i, k) /\ service.running) ~> (~service.running \/ SinkCalled(i, k + 1))

\* the sink raised on the first tick of a thread and returned on its second
C18_SinkCalledAfterFailure ==
    /\ Len(loops) = 1
    /\ service.running
    /\ loops[1].failures = 1
    /\ loops[1].last = "ok"
    /\ SinkCalled(1, 2)
    /\ loops[1].sunk.heartbeat_count = 2

\* the keys of the snapshot _emit_heartbeat builds itself
BaseKeys == {"timestamp", "session_start", "duration", "heartbeat_count"}

\* stats is a base snapshot, without the stats of the provider
IsBaseSnapshot(stats) == DOMAIN stats = BaseKeys /\ stats.heartbeat_count >= 1

\* C19: when the stats provider raises on a tick, the failure is not
\* propagated, and the sink is invoked on that same tick with the base
\* snapshot (timestamp, session start, duration, tick count) without the
\* extra stats: the thread is at the sink call with it, or has made the call.
C19_SinkGetsBaseSnapshot ==
    \A i \in 1..Len(loops) :
        loops[i].provider = "raise"
            => /\ loops[i].pc # "dead"
               /\ IsBaseSnapshot(loops[i].stats)
               /\ loops[i].pc = "sink" \/ loops[i].sunk = loops[i].stats

\* the provider raised on the first tick and the sink was called, and
\* returned, with the base snapshot of that tick
C19_SinkCalledWithBase ==
    /\ Len(loops) = 1
    /\ loops[1].provider = "raise"
    /\ loops[1].ticks = 1
    /\ loops[1].last = "ok"
    /\ loops[1].pc = "check"
    /\ loops[1].sunk = base_stats([service EXCEPT !.heartbeat_count = 1], now)

\* C20: stop() returns within a bounded wait and leaves the scheduler Idle,
\* whether the timer thread is in its sleep or in a tick whose sink never
\* returns: while stop() waits in join the service is not running and the
\* wait has not exceeded the timeout of join, and when stop() has returned
\* the service is not running.
C20_StopIsBounded ==
    /\ main.pc = "joining" => (~service.running /\ main.waited <= JoinTimeout)
    /\ (main.op = "stop" /\ main.pc = "idle") => (~service.running /\ main.waited <= JoinTimeout)

\* stop() has returned after the full timeout while the sink of a tick never
\* returns
C20_StoppedWhileSinkHangs ==
    /\ main.op = "stop"
    /\ main.pc = "idle"
    /\ main.waited = JoinTimeout
    /\ ~service.running
    /\ loops[service.thread].pc = "hung"


\* the text the claim requires for each exit code of the outcomes
ExitCodeTexts ==
    (0 :> <<"E","x","i","t"," ","c","o","d","e"," ","0">>) @@ (1 :> <<"E","x","i","t"," ","c",
          "o","d","e"," ","1">>) @@ (2 :> <<"E","x","i","t"," ","c","o","d","e"," ","2">>)
    @@ (127 :> <<"E","x","i","t"," ","c","o","d","e"," ","1","2","7">>) @@ (-1 :> <<"E","x","i",
          "t"," ","c","o","d","e"," ","-","1">>)

\* C21: extract_error_summary returns exactly 'Exit code N', N the exit
\* code of the outcome, when stderr and stdout are both empty.
C21_ExitCodeWhenNoOutput ==
    (result.op = "summary" /\ event.stderr = <<>> /\ event.stdout = <<>>)
        => result.value = ExitCodeTexts[event.exit_code]

\* a timed-out outcome without output was summarised
C21_TimeoutSummarised ==
    /\ result.op = "summary"
    /\ event.stderr = <<>>
    /\ event.stdout = <<>>
    /\ event.exit_code = -1
    /\ result.value = <<"E","x","i","t"," ","c","o","d","e"," ","-","1">>

\* the lines extract_error_summary scans: those of stderr, of stdout when
\* stderr is empty
ScannedLines ==
    SplitLines(strip(IF Len(event.stderr) > 0 THEN event.stderr ELSE event.stdout))

\* shape i of the known error-prefix shapes matches the line
ShapeMatches(i, line) == Matches(priority_patterns[i].re, line, FALSE)

Shapes == 1..Len(priority_patterns)

\* the trimmed remainder shape i captures in a line it matches; the
\* traceback shape captures nothing and stands for the whole line
Captured(i, line) ==
    LET m == Search(priority_patterns[i].re, line, 1, FALSE)
    IN  IF priority_patterns[i].group > 0 THEN strip(SubSeq(line, m.gs, m.ge - 1))
        ELSE strip(line)

SomeShapeMatches == \E i \in Shapes, j \in 1..Len(ScannedLines) : ShapeMatches(i, ScannedLines[j])

\* C23 as stated: the summary is the trimmed captured remainder of the first
\* line, in line order, that matches any of the known shapes.
C23_FirstMatchingLine ==
    (result.op = "summary" /\ SomeShapeMatches) =>
        LET j0 == Min({j \in 1..Len(ScannedLines) :
                          \E i \in Shapes : ShapeMatches(i, ScannedLines[j])})
            i0 == Min({i \in Shapes : ShapeMatches(i, ScannedLines[j0])})
        IN  result.value = Captured(i0, ScannedLines[j0])

\* C23 amended: the shapes are tried in their priority order; the summary is
\* the trimmed captured remainder of the first line matched by the first
\* shape that matches any line (the whole trimmed line for the traceback
\* shape).
C23_FirstShapeByPriority ==
    (result.op = "summary" /\ SomeShapeMatches) =>
        LET i0 == Min({i \in Shapes :
                          \E j \in 1..Len(ScannedLines) : ShapeMatches(i, ScannedLines[j])})
            j0 == Min({j \in 1..Len(ScannedLines) : ShapeMatches(i0, ScannedLines[j])})
        IN  result.value = Captured(i0, ScannedLines[j0])

\* a panic line after an Error line: the panic is the summary
C23_PanicAfterError ==
    /\ result.op = "summary"
    /\ event.stderr = <<"E","r","r","o","r",":"," ","a","\n","p","a","n","i","c",":"," ","X">>
    /\ result.value = <<"X">>

\* C22: for a text longer than the limit L, truncating it at L and
\* truncating the result again at L give strings whose first L characters
\* are equal.
C22_TruncateKeepsPrefix ==
    (result.op = "truncate_again" /\ Len(event.text) > event.max_length)
        => Prefix(result.value, event.max_length) = Prefix(result.first, event.max_length)

\* a text was cut twice: the two results differ, in the count they report,
\* and begin with the same characters of the text
C22_CutTwice ==
    /\ result.op = "truncate_again"
    /\ event.text = <<" ","a","b","a">>
    /\ event.max_length = 2
    /\ result.first = <<"a","b","\n",".",".","."," ","(","t","r","u","n","c","a","t","e","d",
          ","," ","3"," ","t","o","t","a","l"," ","c","h","a","r","s",")">>
    /\ result.value = <<"a","b","\n",".",".","."," ","(","t","r","u","n","c","a","t","e","d",
          ","," ","3","3"," ","t","o","t","a","l"," ","c","h","a","r","s",")">>

\* the outcome gets to rule 5 of classify and a pattern matches its output
ReachesOutputRule ==
    /\ event.exit_code = 0
    /\ Len(cmd_parts(event)) > 0
    /\ ~IsIgnored(event)
    /\ ~IsAlwaysCapture(event)
    /\ OutputHits(event) # {}

\* the vocabulary that makes a pattern one of failure
FailureVocabulary == {<<"e","r","r","o","r">>, <<"f","a","i","l">>, <<"e","x","c","e","p","t",
      "i","o","n">>, <<"p","a","n","i","c">>, <<"c","r","a","s","h">>}

\* the patterns for fatal, traceback and timeout, in any case
QuietPatterns ==
    {i \in 1..Len(SIGNIFICANT_PATTERNS) :
        \E w \in {<<"f","a","t","a","l">>, <<"t","r","a","c","e","b","a","c","k">>, <<"t","i",
              "m","e","o","u","t">>} :
            Contains(lower(SIGNIFICANT_PATTERNS[i].text), w)}

PanicPatterns ==
    {i \in 1..Len(SIGNIFICANT_PATTERNS) : Contains(lower(SIGNIFICANT_PATTERNS[i].text), <<"p",
          "a","n","i","c">>)}

C25_UpdatedByEventsOnly ==
    [][EntryAccepted =>
          IF NewSection = "heartbeat" THEN UpdatedField(file') = UpdatedField(file)
          ELSE UpdatedField(file') = FmtMinute(now)]_vars

\* a heartbeat entry of 00:01 is in a document whose Updated field is still
\* the 00:00 of the command before it
C25_HeartbeatLeftUpdated ==
    /\ now = 1
    /\ Len(log) = 2
    /\ log[1].section = "error"
    /\ log[2].section = "heartbeat"
    /\ LineOf(file, <<"#","#","#"," ","[","H","E","A","R","T","B","E","A","T","]"," ","2","0",
          "2","4","-","0","1","-","0","1"," ","0","0",":","0","1"," ","U","T","C">>) > 0
    /\ UpdatedField(file) = <<"2","0","2","4","-","0","1","-","0","1"," ","0","0",":","0","0",
          " ","U","T","C">>

\* the document has an Updated field: a line the pattern of
\* _update_timestamp matches
HasUpdatedField(content) ==
    \E k \in 1..Len(content) : Matches(UpdatedRe, content[k], FALSE)

\* C26: when the document has no Updated field, append_event still inserts
\* the entry, the timestamp update changes nothing and the rest of the
\* document is as it was: the new document is the old one with the lines of
\* the entry put in.
C26_NoFieldNoUpdate ==
    [][(EntryAccepted /\ ~HasUpdatedField(file))
          => /\ \E idx \in 1..(Len(file) + 1) : file' = WithEntryAt(file, idx, NewEntry)
             /\ ~HasUpdatedField(file')]_vars

\* a document without the Updated field, with all its markers, took a
\* decision entry in its Decision Log
C26_EntryWithoutField ==
    /\ Len(log) = 1
    /\ log[1].section = "decision"
    /\ ~HasUpdatedField(file)
    /\ \E idx \in 1..Len(create_template(0)) :
          /\ file = WithEntryAt(Without(create_template(0),
                                        {<<"*","*","U","p","d","a","t","e","d",":","*","*"," ">> \o FmtMinute(0)}),
                                idx, log[1].entry)
          /\ idx > Min(MarkerLines(file, SECTIONS["decision"]))

\* the step is one of the core: the construction of the session or a call
\* of execute
CoreStep == caller' # caller \/ command_count' # command_count

ProviderInvoked(i) == loops[i].pc = "stats" /\ loops'[i].pc # "stats"

SinkInvoked(i) == loops[i].pc = "sink" /\ loops'[i].pc # "sink"

\* C28: the timer thread ticks only while the scheduler is running: once
\* stop() has cleared the running state, no step of a timer thread invokes
\* the stats provider or the sink, however stop() and the thread interleave.
C28_NoTickWhileIdle ==
    [][\A i \in 1..Len(loops) :
          (ProviderInvoked(i) \/ SinkInvoked(i)) => service.running]_vars

\* the outcome of the call of a caller is one to tell the observer of: it is
\* not Noise, or its logging was forced
ToBeObserved(c) == c.force \/ classify(c.content) # NOISE

C30_CounterIsCalls ==
    LET n == Len(caller.made)
    IN  /\ command_count = n
        /\ last_command = IF n = 0 THEN None ELSE caller.made[n].command

\* two calls, the second of which timed out
C30_TimeoutCounted ==
    /\ caller.pc = "idle"
    /\ Len(caller.made) = 2
    /\ caller.made[1].exit_code = 0
    /\ caller.made[2] = TimedOut
    /\ command_count = 2
    /\ last_command = <<"s","l","e","e","p"," ","9","9","9">>

\* the rules of classify after the ignore rule
RestOfClassify(e) ==
    IF IsAlwaysCapture(e) THEN SUCCESS
    ELSE IF OutputHits(e) # {} THEN OutputCategory(e)
    ELSE IF IsDecisionCommand(e) THEN DECISION
    ELSE NOISE

\* C31: the classifier of the session takes the ignore set from the
\* configuration the session was given: after execute of a zero-exit command
\* whose first token, lower-cased, is in the configured ignore set the
\* category is Noise, a command outside the configured set is decided by the
\* later rules, and the built-in set of the filter applies only when no
\* configuration was supplied.
C31_ConfiguredIgnoreSetDecides ==
    (caller.pc = "idle" /\ result.op = "classify" /\ event.exit_code = 0)
        => IF caller.config.source = "none"
           THEN result.value = classify(event)
           ELSE IF lower(cmd_parts(event)[1]) \in caller.config.ignore_commands
                THEN result.value = NOISE
                ELSE result.value = RestOfClassify(event)

\* thread i runs _run_loop and can tick again: it has not ended and is not
\* stuck in a sink that never returns
ActiveLoop(i) == ~Ended(loops[i]) /\ loops[i].pc # "hung"

\* thread i is inside _emit_heartbeat
Emitting(i) == loops[i].pc \in {"count", "stats", "sink"}

\* C32: at most one timer loop is active per scheduler at any time, after
\* any sequence of start() and stop(), stop() followed by start() before the
\* sleep of the previous loop has ended included; no two loops are inside
\* the emission of a scheduled tick at the same time.
C32_OneTimerLoop ==
    /\ Cardinality({i \in 1..Len(loops) : ActiveLoop(i)}) <= 1
    /\ Cardinality({i \in 1..Len(loops) : Emitting(i)}) <= 1

\* the ticks the threads in ls have emitted
RECURSIVE LoopTicks(_)
LoopTicks(ls) == IF ls = <<>> THEN 0 ELSE Head(ls).ticks + LoopTicks(Tail(ls))

\* the ticks emitted so far: the scheduled ones and those of emit_now
TicksEmitted(svc_main, svc_loops) == svc_main.ticks + LoopTicks(svc_loops)

\* C33: the tick count of the scheduler is the number of ticks emitted so
\* far, scheduled ticks and calls of emit_now together: every step changes
\* it by the number of ticks emitted in the step (one for a tick, nothing
\* for start(), stop() and every other step), so it never decreases, is not
\* reset, and loses no increment when emit_now runs beside a scheduled tick.
C33_CountIsTicksEmitted ==
    [][service'.heartbeat_count - service.heartbeat_count
           = TicksEmitted(main', loops') - TicksEmitted(main, loops)]_vars

\* the line of the header's Updated field: the first line that starts with
\* '**Updated:** ', which lies above every section
HeaderUpdatedLine(content) ==
    Min({i \in 1..Len(content) : StartsWith(content[i], <<"*","*","U","p","d","a","t","e","d",
          ":","*","*"," ">>)})

\* C34: the timestamp update of append_event changes only the Updated line
\* of the header: after a step that accepted an entry of a command, the
\* document is the earlier one with the lines of the new entry put in, but
\* for the header's Updated line and the lines of the new entry; the text of
\* every entry that was in the document is as it was, also when it contains
\* '**Updated:** ...'.
C34_OnlyHeaderLineChanges ==
    [][(EntryAccepted /\ NewSection # "heartbeat")
          => /\ Len(file') = Len(file) + Len(NewEntry)
             /\ \E idx \in 1..(Len(file) + 1) :
                   \A i \in 1..Len(file') :
                       (i # HeaderUpdatedLine(file) /\ i \notin idx..(idx + Len(NewEntry) - 1))
                           => file'[i] = WithEntryAt(file, idx, NewEntry)[i]]_vars
====
